---- MODULE Spec2Model ----
(***************************************************************************)
(* canvas-mcp: the surface manager (canvas_manager.py), the WebSocket      *)
(* connection handler and the browser client (web_server.py), and the      *)
(* tool layer's get (server.py), as one state machine.                     *)
(*                                                                         *)
(* Scheduling: asyncio runs one coroutine at a time and switches only at   *)
(* an await that suspends.  Every action below is the code of one          *)
(* coroutine from one suspension point to the next.                        *)
(*                                                                         *)
(* Strings that the code takes apart (data-model paths) are sequences of   *)
(* one-character strings.  A dict is a sequence of nodes in insertion      *)
(* order: [p |-> <<key, ...>>, v |-> tag], tag "map" for a nested dict and *)
(* the scalar's name otherwise.                                            *)
(***************************************************************************)
EXTENDS Integers, Sequences, FiniteSets, TLC

---------------------------------------------------------------------------
(* Bounds of the model *)

\* tool calls started over a run
MaxCalls == 2
\* tool calls in flight at the same time
MaxTasks == 2
\* restarts of the process over a run
MaxRestarts == 1
\* the longest path string tried on the pointer functions
MaxPathLen == 4

\* ids uuid4().hex[:12] returns, in the order it returns them
IdOrder == <<"s1", "s2">>
SurfaceIds == { IdOrder[i] : i \in DOMAIN IdOrder }
\* WebSocketResponse objects, in the order connections are accepted
WsOrder == <<"w1", "w2">>
WsHandles == { WsOrder[i] : i \in DOMAIN WsOrder }

\* the value {} (an empty dict)
EmptyMap == "map"
\* JSON scalars
Scalars == {"v2", "v3"}
\* value arguments of canvas_data
Values == {"v2", EmptyMap}

\* path arguments of canvas_data
PathA == <<"/", "a">>
Paths == { PathA }
\* and one below it
PathAB == <<"/", "a", "/", "b">>
\* the paths that name the root: "" and "/"
RootPaths == {<< >>, <<"/">>}
\* paths without the leading slash, with doubled and trailing slashes
PointerPaths ==
  { PathA, PathAB, <<"a">>, <<"/", "/", "a", "/">>, <<"/", "/">>,
    <<"/", "a", "/", "/", "b">> }
\* every string of "/", "a" and "b" up to the longest
PathChars == {"/", "a", "b"}
AllPaths == UNION { [1..n -> PathChars] : n \in 0..MaxPathLen }

\* component records: id and an opaque attribute
Comp(i, t) == [id |-> i, text |-> t]
\* components arguments of canvas_update: lists that redefine the root
RootLists == { <<Comp("root", "t2")>>, <<Comp("root", "t3")>> }
\* and lists that drop it
CompLists == { << >>, <<Comp("x", "t1")>> }

---------------------------------------------------------------------------
(* Sequences *)

RECURSIVE SeqConcat(_)
SeqConcat(ss) == IF ss = << >> THEN << >> ELSE Head(ss) \o SeqConcat(Tail(ss))

Last(s) == s[Len(s)]
Front(s) == SubSeq(s, 1, Len(s) - 1)
IsPrefix(a, b) == Len(a) <= Len(b) /\ SubSeq(b, 1, Len(a)) = a
IsStrictPrefix(a, b) == Len(a) < Len(b) /\ SubSeq(b, 1, Len(a)) = a

---------------------------------------------------------------------------
(* str.strip("/") and str.split("/"), and the client's                     *)
(* path.replace(/^\//, '').split('/')                                      *)

RECURSIVE LStrip(_)
LStrip(s) == IF s # << >> /\ Head(s) = "/" THEN LStrip(Tail(s)) ELSE s

RECURSIVE RStrip(_)
RStrip(s) == IF s # << >> /\ Last(s) = "/" THEN RStrip(Front(s)) ELSE s

Strip(s) == RStrip(LStrip(s))

\* split on "/": always at least one part; "" splits into [""]
RECURSIVE SplitFrom(_, _)
SplitFrom(s, cur) ==
  IF s = << >> THEN <<cur>>
  ELSE IF Head(s) = "/" THEN <<cur>> \o SplitFrom(Tail(s), << >>)
  ELSE SplitFrom(Tail(s), Append(cur, Head(s)))

Split(s) == SplitFrom(s, << >>)

\* path.replace(/^\//, ''): one leading slash, if any
JsDropLeadingSlash(s) == IF s # << >> /\ Head(s) = "/" THEN Tail(s) ELSE s

---------------------------------------------------------------------------
(* Dicts as ordered node sequences *)

EmptyTree == << >>

NodePaths(t) == { t[i].p : i \in 1..Len(t) }
HasNode(t, p) == p \in NodePaths(t)
IndexOf(t, p) == CHOOSE i \in 1..Len(t) : t[i].p = p
TagOf(t, p) == t[IndexOf(t, p)].v

\* the object reached at key path p is a dict (the root is one)
IsMapAt(t, p) == p = << >> \/ (HasNode(t, p) /\ TagOf(t, p) = "map")

\* d[k] = value on the dict at key path parent: an existing key keeps its
\* place in the order and loses what was below it, a new key goes last
AssignKey(t, parent, k, value) ==
  LET p == Append(parent, k)
      kept == SelectSeq(t, LAMBDA n : ~IsStrictPrefix(p, n.p))
  IN  IF HasNode(t, p)
      THEN [i \in 1..Len(kept) |->
              IF kept[i].p = p THEN [p |-> p, v |-> value] ELSE kept[i]]
      ELSE Append(t, [p |-> p, v |-> value])

\* the keys of the dict at key path parent, in iteration order
ChildrenOf(t, parent) ==
  SelectSeq(t, LAMBDA n : Len(n.p) = Len(parent) + 1 /\ IsPrefix(parent, n.p))

\* the tree as a set, for comparing two dicts (dict equality ignores order)
TreeSet(t) == { t[i] : i \in 1..Len(t) }

---------------------------------------------------------------------------
(* CanvasManager._set_json_pointer *)

\* a setter that assigns the last key on the root dict
SetWalkShallow(t, cur, parts, value) ==
  [err |-> "", tree |-> AssignKey(t, << >>, Last(parts), value)]

\* the walk over parts from the object at key path cur; err is "" on
\* success and the exception's type otherwise; tree is the dict afterwards
RECURSIVE SetWalk(_, _, _, _)
SetWalk(t, cur, parts, value) ==
  IF ~IsMapAt(t, cur)
  THEN [err |-> "TypeError", tree |-> t]
  ELSE IF Len(parts) = 1
  THEN [err |-> "", tree |-> AssignKey(t, cur, parts[1], value)]
  ELSE LET part == Head(parts)
           t1 == IF HasNode(t, Append(cur, part)) THEN t
                 ELSE AssignKey(t, cur, part, "map")
       IN  SetWalk(t1, Append(cur, part), Tail(parts), value)

\* a setter without the root check
SetJsonPointerAnyPath(obj, path, value) ==
  SetWalk(obj, << >>, Split(Strip(path)), value)

\* a setter that builds the path in a dict of its own
SetJsonPointerFresh(obj, path, value) ==
  IF path = << >> \/ path = <<"/">>
  THEN [err |-> "ValueError", tree |-> obj]
  ELSE SetWalk(EmptyTree, << >>, Split(Strip(path)), value)

\* _set_json_pointer
SetJsonPointer(obj, path, value) ==
  IF path = << >> \/ path = <<"/">>
  THEN [err |-> "ValueError", tree |-> obj]
  ELSE SetWalk(obj, << >>, Split(Strip(path)), value)

\* what a walk that leaves the tree yields
Undefined == "undefined"
\* the value held at key path p: a scalar, the empty dict, or a dict with keys
ValueAt(t, p) ==
  IF TagOf(t, p) # "map" THEN TagOf(t, p)
  ELSE IF ChildrenOf(t, p) = << >> THEN EmptyMap
  ELSE "dict"

\* the lookup loop: for (const part of parts) current = current[part]
RECURSIVE GetWalk(_, _, _)
GetWalk(t, cur, parts) ==
  IF parts = << >> THEN ValueAt(t, cur)
  ELSE IF ~IsMapAt(t, cur) \/ ~HasNode(t, Append(cur, Head(parts))) THEN Undefined
  ELSE GetWalk(t, Append(cur, Head(parts)), Tail(parts))

---------------------------------------------------------------------------
(* CanvasManager._flatten_data_model *)

Leaf(path, value) == [path |-> path, value |-> value]

RECURSIVE FlattenNodes(_, _, _)
FlattenNodes(t, nodes, prefix) ==
  IF nodes = << >> THEN << >>
  ELSE LET n == Head(nodes)
           path == prefix \o <<"/">> \o Last(n.p)
           here == IF n.v = "map"
                   THEN FlattenNodes(t, ChildrenOf(t, n.p), path)
                   ELSE <<Leaf(path, n.v)>>
       IN  here \o FlattenNodes(t, Tail(nodes), prefix)

FlattenDataModel(obj) == FlattenNodes(obj, ChildrenOf(obj, << >>), << >>)

---------------------------------------------------------------------------
(* Messages (SurfaceState.to_create_message, to_components_message and the *)
(* dict literals of update_components, update_data_model, close_surface,   *)
(* send_initial_state).  Fields a message type does not carry hold NoVal.  *)
(* from is not on the wire: it names the call or replay that sent it.      *)

NoVal == "none"

Msg(type, sid, comps, path, value, from) ==
  [type |-> type, surfaceId |-> sid, components |-> comps,
   path |-> path, value |-> value, from |-> from]

ToCreateMessage(sid, from) ==
  Msg("createSurface", sid, << >>, << >>, NoVal, from)
ToComponentsMessage(comps, from) ==
  Msg("updateComponents", NoVal, comps, << >>, NoVal, from)
DataModelMessage(path, value, from) ==
  Msg("updateDataModel", NoVal, << >>, path, value, from)
DeleteMessage(sid, from) ==
  Msg("deleteSurface", sid, << >>, << >>, NoVal, from)

---------------------------------------------------------------------------
(* The page's script: handleMessage and setValueAtPath *)

\* an exception inside handleMessage is caught by onmessage: the message is
\* dropped; assigning a property on a primitive does nothing
RECURSIVE JsSetWalk(_, _, _, _)
JsSetWalk(t, cur, parts, value) ==
  IF Len(parts) = 1
  THEN IF IsMapAt(t, cur) THEN AssignKey(t, cur, parts[1], value) ELSE t
  ELSE IF ~IsMapAt(t, cur) THEN t
  ELSE LET part == Head(parts)
           t1 == IF HasNode(t, Append(cur, part)) THEN t
                 ELSE AssignKey(t, cur, part, "map")
       IN  JsSetWalk(t1, Append(cur, part), Tail(parts), value)

SetValueAtPath(obj, path, value) ==
  JsSetWalk(obj, << >>, Split(JsDropLeadingSlash(path)), value)

\* components[comp.id] = comp for each comp of the list, in order
RECURSIVE MergeComponents(_, _)
MergeComponents(m, list) ==
  IF list = << >> THEN m
  ELSE LET c == Head(list)
           m1 == [i \in DOMAIN m \cup {c.id} |-> IF i = c.id THEN c ELSE m[i]]
       IN  MergeComponents(m1, Tail(list))

NoComponents == [i \in {} |-> Comp(i, i)]
EmptyClient == [components |-> NoComponents, dataModel |-> EmptyTree]

HandleMessage(c, m) ==
  CASE m.type = "createSurface" -> EmptyClient
    [] m.type = "updateComponents" ->
         [c EXCEPT !.components = MergeComponents(@, m.components)]
    [] m.type = "updateDataModel" ->
         IF m.path # << >>
         THEN [c EXCEPT !.dataModel = SetValueAtPath(@, m.path, m.value)]
         ELSE c
    [] OTHER -> c

RECURSIVE HandleAll(_, _)
HandleAll(c, msgs) ==
  IF msgs = << >> THEN c ELSE HandleAll(HandleMessage(c, Head(msgs)), Tail(msgs))

---------------------------------------------------------------------------
(* SurfaceState, its JSON record, and the machine state the operations act *)
(* on.  The operations below take and return the whole state M:            *)
(*   surfaces   keys of CanvasManager._surfaces                            *)
(*   objs       the SurfaceState objects, by id (an object outlives its    *)
(*              key: send_initial_state and _persist_surface keep a        *)
(*              reference across their awaits)                             *)
(*   wsClients  CanvasManager._ws_clients                                  *)
(*   files      the persistence directory: <id>.json -> content            *)
(*   calls      the tool calls, by number                                  *)
(*   ws         the accepted connections: handler position, channel state  *)
(*              and the messages delivered to the page                     *)
(*   diskOk     FALSE once file operations raise                           *)
(*   issued     ids returned by _generate_surface_id or loaded from disk   *)
(* A call's record holds its arguments, its position (ph: the step of its  *)
(* plan, pc: the await it is suspended in), its locals, and a record of    *)
(* what it did: atStart (the subscribers when it was called), popped (the  *)
(* set close_surface popped), sendFailed, closeTried, mutated,             *)
(* persistTried, persistFailed, log.                                       *)

DefaultName == "canvas"
DefaultSize == "tv_1080p"

\* created_at and updated_at hold the number of the call whose
\* datetime.now() they were last assigned from, 0 for a time before any
NewSurfaceState(sid, name, size) ==
  [surface_id |-> sid, name |-> name, size |-> size,
   components |-> << >>, data_model |-> EmptyTree,
   created_at |-> 0, updated_at |-> 0]

\* state.model_dump_json(): the record's fields as a JSON object
ModelDumpJson(state) ==
  [valid |-> TRUE,
   json |-> [surface_id |-> state.surface_id, name |-> state.name,
             size |-> state.size, components |-> state.components,
             data_model |-> state.data_model,
             created_at |-> state.created_at, updated_at |-> state.updated_at]]

\* SurfaceState(**json.loads(text))
ParseSurfaceState(content) ==
  [surface_id |-> content.json.surface_id, name |-> content.json.name,
   size |-> content.json.size, components |-> content.json.components,
   data_model |-> content.json.data_model,
   created_at |-> content.json.created_at, updated_at |-> content.json.updated_at]

\* a file just opened with "w", or one json.loads rejects
EmptyFile == [valid |-> FALSE, json |-> NewSurfaceState(NoVal, NoVal, NoVal)]

\* how long the dump is: it grows with every component and data-model entry
DumpSize(content) ==
  IF content.valid
  THEN 1 + Len(content.json.components) + Len(content.json.data_model)
  ELSE 0

\* the file after a handle opened with "w" writes content at offset 0: a
\* longer earlier write keeps its tail, which json.loads rejects
WriteAtStart(old, content) ==
  IF DumpSize(content) >= DumpSize(old) THEN content ELSE EmptyFile

NewCall ==
  [kind |-> "none", sid |-> NoVal, name |-> NoVal, comps |-> << >>,
   path |-> << >>, value |-> NoVal,
   ph |-> 0, pc |-> "new", result |-> "",
   buf |-> EmptyFile, linked |-> FALSE,
   itStart |-> {}, itSeen |-> {}, itLive |-> FALSE, itFrozen |-> {},
   disconnected |-> {}, closeLeft |-> {},
   atStart |-> {}, popped |-> {}, sendFailed |-> {}, closeTried |-> {},
   mutated |-> FALSE, persistTried |-> FALSE, persistFailed |-> FALSE,
   log |-> << >>]

NewWs ==
  [pc |-> "new", sid |-> NoVal, rest |-> << >>,
   closed |-> FALSE, broken |-> FALSE, inbox |-> << >>]

\* CanvasWebServer: its own set of connections (self._ws_clients) and the
\* keep-alive task: pc (sleep, probe, done), the iteration over the set
\* (itStart, itSeen), dead_clients, whether stop has cancelled the task;
\* pruned is the set the last completed round discarded
NewWeb ==
  [ws_clients |-> {}, pc |-> "sleep", itStart |-> {}, itSeen |-> {},
   dead |-> {}, cancelled |-> FALSE, pruned |-> {}]

NoFunction == [x \in {} |-> x]
Put(f, k, v) == (k :> v) @@ f
Drop(f, k) == [x \in DOMAIN f \ {k} |-> f[x]]

\* the handles in an order: the order a set happens to iterate in
Orders == { o \in [1..Cardinality(WsHandles) -> WsHandles] :
              \A i, j \in DOMAIN o : o[i] = o[j] => i = j }
FirstIn(ord, S) ==
  ord[CHOOSE i \in DOMAIN ord : ord[i] \in S /\ \A j \in 1..(i-1) : ord[j] \notin S]

\* a call that has returned or raised keeps no locals
Finished(c, result) ==
  [c EXCEPT !.pc = "done", !.result = result,
            !.buf = EmptyFile, !.linked = FALSE,
            !.itStart = {}, !.itSeen = {}, !.itLive = FALSE, !.itFrozen = {},
            !.disconnected = {}, !.closeLeft = {}]

Fail(M, k, exc) ==
  [M EXCEPT !.calls[k] = Finished(@, exc)]
Advance(M, k) ==
  [M EXCEPT !.calls[k].ph = @ + 1, !.calls[k].pc = "run"]
Logged(M, k, what) ==
  [M EXCEPT !.calls[k].log = Append(@, what)]

---------------------------------------------------------------------------
(* The steps of each operation, in the order the code runs them *)

\* create_surface: insert state and subscriber set, persist, return
CreateSurfacePlan == <<"insert", "persist">>
\* an update that notifies before it persists
UpdateComponentsPlanBroadcastFirst == <<"set_components", "broadcast", "persist">>
\* update_components: look up and replace, persist, broadcast, return
UpdateComponentsPlan == <<"set_components", "persist", "broadcast">>
\* update_data_model: look up and patch, persist, broadcast, return
UpdateDataModelPlan == <<"set_data", "persist", "broadcast">>
\* a close that deletes the persisted record before it forgets the surface
CloseSurfacePlanUnlinkFirst ==
  <<"check", "broadcast", "close_clients", "unlink", "remove">>
\* a close that pops and closes the clients before it notifies them
CloseSurfacePlanCloseFirst ==
  <<"check", "close_clients", "broadcast", "remove", "unlink">>
\* close_surface: check, broadcast, pop and close the clients, del, unlink
CloseSurfacePlan == <<"check", "broadcast", "close_clients", "remove", "unlink">>

PlanOf(kind) ==
  CASE kind = "create" -> CreateSurfacePlan
    [] kind = "update_components" -> UpdateComponentsPlan
    [] kind = "update_data_model" -> UpdateDataModelPlan
    [] kind = "close" -> CloseSurfacePlan
    [] OTHER -> << >>

\* the message a call broadcasts
\* an update message that leaves out the last component and the value
MessageOfPartial(c, k) ==
  CASE c.kind = "update_components" ->
         ToComponentsMessage(SubSeq(c.comps, 1, Len(c.comps) - 1), k)
    [] c.kind = "update_data_model" -> DataModelMessage(c.path, NoVal, k)
    [] OTHER -> DeleteMessage(c.sid, k)

MessageOf(c, k) ==
  CASE c.kind = "update_components" -> ToComponentsMessage(c.comps, k)
    [] c.kind = "update_data_model" -> DataModelMessage(c.path, c.value, k)
    [] OTHER -> DeleteMessage(c.sid, k)

\* ws.send_str(w) succeeds
CanSend(M, w) == ~M.ws[w].closed /\ ~M.ws[w].broken
Deliver(M, w, m) == [M EXCEPT !.ws[w].inbox = Append(@, m)]

\* a registry that keeps one set of clients for all surfaces
ClientsOfAnySurface(M, sid) ==
  UNION { M.wsClients[s] : s \in DOMAIN M.wsClients }

\* self._ws_clients.get(surface_id, set())
ClientsOf(M, sid) == IF sid \in DOMAIN M.wsClients THEN M.wsClients[sid] ELSE {}

---------------------------------------------------------------------------
(* CanvasManager._broadcast_to_surface.  The loop iterates the registry's  *)
(* own set object: a set whose size differs from the size at the start     *)
(* raises RuntimeError at the next step of the iteration, and an element   *)
(* added meanwhile is met or missed depending on where it hashes.  A send  *)
(* that raises does not suspend; one that succeeds may.  ch carries the    *)
(* choices of one step: ord (iteration order), skipNew.                    *)

\* for client in disconnected: self._ws_clients[surface_id].discard(client)
BroadcastCleanup(M, k) ==
  LET c == M.calls[k]
  IN  IF c.disconnected = {} THEN Advance(M, k)
      ELSE IF c.sid \notin DOMAIN M.wsClients THEN Fail(M, k, "KeyError")
      ELSE Advance([M EXCEPT !.wsClients[c.sid] = @ \ c.disconnected], k)

\* a loop that a send which raises ends
RECURSIVE BroadcastLoopAborting(_, _, _)
BroadcastLoopAborting(M, k, ch) ==
  LET c == M.calls[k]
      cur == IF c.itLive THEN ClientsOf(M, c.sid) ELSE c.itFrozen
      cand == cur \ c.itSeen
  IN  IF Cardinality(cur) # Cardinality(c.itStart)
      THEN Fail(M, k, "RuntimeError")
      ELSE IF cand = {} \/ (ch.skipNew /\ cand \cap c.itStart = {})
      THEN BroadcastCleanup(M, k)
      ELSE LET w == FirstIn(ch.ord, cand)
               M1 == [M EXCEPT !.calls[k].itSeen = @ \cup {w}]
           IN  IF CanSend(M, w)
               THEN [Deliver(M1, w, MessageOf(c, k)) EXCEPT !.calls[k].pc = "send"]
               ELSE Fail([M1 EXCEPT !.calls[k].sendFailed = @ \cup {w}], k,
                         "ConnectionResetError")

RECURSIVE BroadcastLoop(_, _, _)
BroadcastLoop(M, k, ch) ==
  LET c == M.calls[k]
      cur == IF c.itLive THEN ClientsOf(M, c.sid) ELSE c.itFrozen
      cand == cur \ c.itSeen
  IN  IF Cardinality(cur) # Cardinality(c.itStart)
      THEN Fail(M, k, "RuntimeError")
      ELSE IF cand = {} \/ (ch.skipNew /\ cand \cap c.itStart = {})
      THEN BroadcastCleanup(M, k)
      ELSE LET w == FirstIn(ch.ord, cand)
               M1 == [M EXCEPT !.calls[k].itSeen = @ \cup {w}]
           IN  IF CanSend(M, w)
               THEN [Deliver(M1, w, MessageOf(c, k)) EXCEPT !.calls[k].pc = "send"]
               ELSE BroadcastLoop(
                      [M1 EXCEPT !.calls[k].disconnected = @ \cup {w},
                                 !.calls[k].sendFailed = @ \cup {w}], k, ch)

BroadcastToSurface(M, k, ch) ==
  LET c == M.calls[k]
      clients == ClientsOf(M, c.sid)
  IN  IF clients = {} THEN Advance(M, k)
      ELSE BroadcastLoop(
             [M EXCEPT !.calls[k].itStart = clients, !.calls[k].itSeen = {},
                       !.calls[k].itLive = TRUE, !.calls[k].itFrozen = {},
                       !.calls[k].disconnected = {}], k, ch)

---------------------------------------------------------------------------
(* CanvasManager._persist_surface and _delete_persisted_surface.  The open *)
(* and the write run in a worker thread while the coroutine is suspended;  *)
(* the dump is taken when the coroutine resumes after the open, and the    *)
(* bytes reach the file by the time it resumes after the write and close.  *)

PersistBegin(M, k) ==
  IF M.calls[k].sid \notin M.surfaces THEN Advance(M, k)
  ELSE [M EXCEPT !.calls[k].pc = "open"]

\* a persist whose failed open reaches the caller
PersistOpenedRaising(M, k) ==
  LET c == M.calls[k]
  IN  IF ~M.diskOk
      THEN Fail([M EXCEPT !.calls[k].persistTried = TRUE,
                          !.calls[k].persistFailed = TRUE], k, "OSError")
      ELSE [M EXCEPT !.files = Put(@, c.sid, EmptyFile),
                     !.calls[k].buf = ModelDumpJson(M.objs[c.sid]),
                     !.calls[k].linked = TRUE,
                     !.calls[k].persistTried = TRUE,
                     !.calls[k].pc = "write"]

\* aiofiles.open(file_path, "w") has returned or raised
PersistOpened(M, k) ==
  LET c == M.calls[k]
  IN  IF ~M.diskOk
      THEN Advance([M EXCEPT !.calls[k].persistTried = TRUE,
                             !.calls[k].persistFailed = TRUE], k)
      ELSE [M EXCEPT !.files = Put(@, c.sid, EmptyFile),
                     !.calls[k].buf = ModelDumpJson(M.objs[c.sid]),
                     !.calls[k].linked = TRUE,
                     !.calls[k].persistTried = TRUE,
                     !.calls[k].pc = "write"]

\* f.write(...) and the close of the file have returned or raised
PersistWritten(M, k) ==
  LET c == M.calls[k]
      M1 == IF ~M.diskOk THEN [M EXCEPT !.calls[k].persistFailed = TRUE]
            ELSE IF c.linked
            THEN [M EXCEPT !.files[c.sid] = WriteAtStart(@, c.buf)]
            ELSE M
  IN  Advance([M1 EXCEPT !.calls[k].linked = FALSE], k)

DeletePersistedSurface(M, k) ==
  LET sid == M.calls[k].sid
  IN  IF M.diskOk /\ sid \in DOMAIN M.files
      THEN Advance(
             [M EXCEPT !.files = Drop(@, sid),
                       !.calls = [j \in DOMAIN M.calls |->
                                    IF M.calls[j].sid = sid
                                    THEN [M.calls[j] EXCEPT !.linked = FALSE]
                                    ELSE M.calls[j]]], k)
      ELSE Advance(M, k)

---------------------------------------------------------------------------
(* The in-memory steps *)

\* create_surface, lines 129-137
InsertSurface(M, k) ==
  LET c == M.calls[k]
  IN  Advance(
        [M EXCEPT !.objs = Put(@, c.sid,
                             [NewSurfaceState(c.sid, c.name, DefaultSize) EXCEPT
                                !.created_at = k, !.updated_at = k]),
                  !.surfaces = @ \cup {c.sid},
                  !.wsClients = Put(@, c.sid, {})], k)

\* an update that keeps the components whose id the new list does not have
SetComponentsMerging(M, k) ==
  LET c == M.calls[k]
      kept == IF c.sid \in M.surfaces
              THEN SelectSeq(M.objs[c.sid].components,
                             LAMBDA e : \A i \in DOMAIN c.comps : c.comps[i].id # e.id)
              ELSE << >>
  IN  IF c.sid \notin M.surfaces THEN Fail(M, k, "ValueError")
      ELSE Advance([M EXCEPT !.objs[c.sid].components = kept \o c.comps,
                             !.objs[c.sid].updated_at = k,
                             !.calls[k].mutated = TRUE], k)

\* update_components, lines 163-168
SetComponents(M, k) ==
  LET c == M.calls[k]
  IN  IF c.sid \notin M.surfaces THEN Fail(M, k, "ValueError")
      ELSE Advance([M EXCEPT !.objs[c.sid].components = c.comps,
                             !.objs[c.sid].updated_at = k,
                             !.calls[k].mutated = TRUE], k)

\* update_data_model, lines 196-202
SetData(M, k) ==
  LET c == M.calls[k]
  IN  IF c.sid \notin M.surfaces THEN Fail(M, k, "ValueError")
      ELSE LET r == SetJsonPointer(M.objs[c.sid].data_model, c.path, c.value)
               M1 == [M EXCEPT !.objs[c.sid].data_model = r.tree]
           IN  IF r.err # "" THEN Fail(M1, k, r.err)
               ELSE Advance([M1 EXCEPT !.objs[c.sid].updated_at = k,
                                       !.calls[k].mutated = TRUE], k)

\* a close that does not look the surface up
CheckSurfaceSkipped(M, k) == Advance(M, k)

\* close_surface, lines 243-244
CheckSurface(M, k) ==
  IF M.calls[k].sid \notin M.surfaces THEN Fail(M, k, "ValueError")
  ELSE Advance(M, k)

\* close_surface, lines 251-256: pop the set, close each client.  A closed
\* channel's close() returns at once; an open one's suspends.
RECURSIVE CloseLoop(_, _, _)
CloseLoop(M, k, ch) ==
  LET c == M.calls[k]
  IN  IF c.closeLeft = {} THEN Advance(M, k)
      ELSE LET w == FirstIn(ch.ord, c.closeLeft)
               M1 == [M EXCEPT !.calls[k].closeLeft = @ \ {w},
                               !.calls[k].closeTried = @ \cup {w},
                               !.ws[w].closed = TRUE]
           IN  IF M.ws[w].closed THEN CloseLoop(M1, k, ch)
               ELSE [M1 EXCEPT !.calls[k].pc = "closing"]

\* the popped set object stays with the loops still iterating it
CloseClients(M, k, ch) ==
  LET sid == M.calls[k].sid
      clients == ClientsOf(M, sid)
      M1 == [M EXCEPT
               !.wsClients = Drop(@, sid),
               !.calls = [j \in DOMAIN M.calls |->
                            IF j = k
                            THEN [M.calls[j] EXCEPT !.closeLeft = clients,
                                                    !.popped = clients]
                            ELSE IF M.calls[j].sid = sid /\ M.calls[j].pc = "send"
                                    /\ M.calls[j].itLive
                            THEN [M.calls[j] EXCEPT !.itLive = FALSE,
                                                    !.itFrozen = clients]
                            ELSE M.calls[j]]]
  IN  CloseLoop(M1, k, ch)

\* close_surface, line 259: del self._surfaces[surface_id]
RemoveSurface(M, k) ==
  LET sid == M.calls[k].sid
  IN  IF sid \notin M.surfaces THEN Fail(M, k, "KeyError")
      ELSE Advance([M EXCEPT !.surfaces = @ \ {sid}], k)

---------------------------------------------------------------------------
(* Running a call from where it is to its next suspension or its end.      *)
(* log keeps, for each step entered, its name and what the step saw.       *)

Seen(M, k, step) ==
  [step |-> step,
   live |-> M.calls[k].sid \in M.surfaces,
   stored |-> M.calls[k].sid \in DOMAIN M.files,
   subs |-> ClientsOf(M, M.calls[k].sid) # {},
   clients |-> ClientsOf(M, M.calls[k].sid)]

Enter(M, k, ch) ==
  LET step == PlanOf(M.calls[k].kind)[M.calls[k].ph]
      L == Logged(M, k, Seen(M, k, step))
  IN  CASE step = "insert" -> InsertSurface(L, k)
        [] step = "set_components" -> SetComponents(L, k)
        [] step = "set_data" -> SetData(L, k)
        [] step = "check" -> CheckSurface(L, k)
        [] step = "persist" -> PersistBegin(L, k)
        [] step = "broadcast" -> BroadcastToSurface(L, k, ch)
        [] step = "close_clients" -> CloseClients(L, k, ch)
        [] step = "remove" -> RemoveSurface(L, k)
        [] step = "unlink" -> DeletePersistedSurface(L, k)

RECURSIVE Run(_, _, _)
Run(M, k, ch) ==
  LET c == M.calls[k]
  IN  IF c.pc # "run" THEN M
      ELSE IF c.ph > Len(PlanOf(c.kind))
      THEN [M EXCEPT !.calls[k] = Finished(@, "ok")]
      ELSE Run(Enter(M, k, ch), k, ch)

\* the await the call is suspended in has completed
Resume(M, k, ch) ==
  LET pc == M.calls[k].pc
      M1 == CASE pc = "open" -> PersistOpened(M, k)
              [] pc = "write" -> PersistWritten(M, k)
              [] pc = "send" -> BroadcastLoop(M, k, ch)
              [] pc = "closing" -> CloseLoop(M, k, ch)
  IN  Run(M1, k, ch)

\* the tool layer calls the operation
Begin(M, k, kind, sid, comps, path, value, ch) ==
  LET c == [NewCall EXCEPT !.kind = kind, !.sid = sid, !.name = DefaultName,
                           !.comps = comps, !.path = path, !.value = value,
                           !.ph = 1, !.pc = "run",
                           !.atStart = ClientsOf(M, sid)]
  IN  Run([M EXCEPT !.calls[k] = c], k, ch)

---------------------------------------------------------------------------
(* CanvasManager.register_ws_client, unregister_ws_client,                 *)
(* send_initial_state and CanvasWebServer._handle_websocket                *)

\* a registration that does not look the surface up
RegisterWsClientUnchecked(M, sid, w) ==
  [M EXCEPT !.wsClients = Put(@, sid, ClientsOf(M, sid) \cup {w})]

\* what register_ws_client returns
RegisterWsClientResult(M, sid) == sid \in M.surfaces

\* a registration that enters the handle in the set of every live surface
RegisterWsClientEverywhere(M, sid, w) ==
  IF sid \notin M.surfaces THEN M
  ELSE [M EXCEPT !.wsClients =
          [s \in DOMAIN @ \cup M.surfaces |-> ClientsOf(M, s) \cup {w}]]

RegisterWsClient(M, sid, w) ==
  IF sid \notin M.surfaces THEN M
  ELSE [M EXCEPT !.wsClients = Put(@, sid, ClientsOf(M, sid) \cup {w})]

\* an unregistration that discards the handle from every surface's set
UnregisterWsClientEverywhere(M, sid, w) ==
  [M EXCEPT !.wsClients = [s \in DOMAIN @ |-> @[s] \ {w}]]

UnregisterWsClient(M, sid, w) ==
  IF sid \in DOMAIN M.wsClients
  THEN [M EXCEPT !.wsClients[sid] = @ \ {w}]
  ELSE M

\* the finally block of _handle_websocket, and the return
\* the handler's end without the unregistration
HandlerFinallyKeeping(M, w) ==
  [M EXCEPT !.ws[w].pc = "done", !.ws[w].rest = << >>,
            !.web.ws_clients = @ \ {w}]

HandlerFinally(M, w) ==
  [UnregisterWsClient(M, M.ws[w].sid, w) EXCEPT !.ws[w].pc = "done", !.ws[w].rest = << >>,
                                                !.web.ws_clients = @ \ {w}]

\* await ws.send_str(...) in send_initial_state: raise into the handler's
\* except and finally, or deliver and suspend at pc next
\* a replay message handed to every subscriber of the surface
ReplaySendBroadcasting(M, w, m, next, rest) ==
  IF CanSend(M, w)
  THEN [M EXCEPT !.ws = [v \in WsHandles |->
                   IF v = w
                   THEN [M.ws[v] EXCEPT !.inbox = Append(@, m), !.pc = next, !.rest = rest]
                   ELSE IF v \in ClientsOf(M, M.ws[w].sid)
                   THEN [M.ws[v] EXCEPT !.inbox = Append(@, m)]
                   ELSE M.ws[v]]]
  ELSE HandlerFinally(M, w)

ReplaySend(M, w, m, next, rest) ==
  IF CanSend(M, w)
  THEN [Deliver(M, w, m) EXCEPT !.ws[w].pc = next, !.ws[w].rest = rest]
  ELSE HandlerFinally(M, w)

\* send_initial_state from "if state.data_model:" on; after the last send
\* the handler waits in "async for msg in ws"
ReplayDataModel(M, w) ==
  LET state == M.objs[M.ws[w].sid]
      leaves == IF state.data_model # EmptyTree
                THEN FlattenDataModel(state.data_model) ELSE << >>
  IN  IF leaves = << >> THEN [M EXCEPT !.ws[w].pc = "listen"]
      ELSE ReplaySend(M, w, DataModelMessage(leaves[1].path, leaves[1].value, 0),
                      IF Len(leaves) = 1 THEN "listen" ELSE "r_leaf", Tail(leaves))

\* a replay that sends the components message for an empty list as well
ReplayComponentsAlways(M, w) ==
  ReplaySend(M, w, ToComponentsMessage(M.objs[M.ws[w].sid].components, 0), "r_dm", << >>)

\* send_initial_state from "if state.components:" on
ReplayComponents(M, w) ==
  LET state == M.objs[M.ws[w].sid]
  IN  IF state.components # << >>
      THEN ReplaySend(M, w, ToComponentsMessage(state.components, 0), "r_dm", << >>)
      ELSE ReplayDataModel(M, w)

\* the next leaf of the list flatten returned
ReplayLeaf(M, w) ==
  LET rest == M.ws[w].rest
  IN  ReplaySend(M, w, DataModelMessage(rest[1].path, rest[1].value, 0),
                 IF Len(rest) = 1 THEN "listen" ELSE "r_leaf", Tail(rest))

\* _handle_websocket up to the first send of send_initial_state
AcceptWebsocket(M, w, sid) ==
  IF sid \notin M.surfaces
  THEN [M EXCEPT !.ws[w].sid = sid, !.ws[w].pc = "done", !.ws[w].closed = TRUE]
  ELSE LET M0 == RegisterWsClient([M EXCEPT !.ws[w].sid = sid], sid, w)
           M1 == [M0 EXCEPT !.web.ws_clients = @ \cup {w}]
       IN  ReplaySend(M1, w, ToCreateMessage(M1.objs[sid].surface_id, 0), "r_comp", << >>)

\* every message send_initial_state sends for a state, when no send raises
InitialStateMessages(state) ==
  LET leaves == IF state.data_model # EmptyTree
                THEN FlattenDataModel(state.data_model) ELSE << >>
  IN  <<ToCreateMessage(state.surface_id, 0)>>
      \o (IF state.components # << >>
          THEN <<ToComponentsMessage(state.components, 0)>> ELSE << >>)
      \o [i \in DOMAIN leaves |-> DataModelMessage(leaves[i].path, leaves[i].value, 0)]

\* server.py canvas_get: get_surface, "Surface not found" if None
CanvasGetFound(M, sid) == sid \in M.surfaces

\* a count over the sets of all surfaces
ConnectedClientsAnywhere(M, sid) ==
  Cardinality(UNION { M.wsClients[s] : s \in DOMAIN M.wsClients })

\* list_surfaces / get_surface_info: connected_clients
ConnectedClients(M, sid) == Cardinality(ClientsOf(M, sid))

---------------------------------------------------------------------------
(* CanvasManager.__init__ and initialize on a persistence directory *)

\* the orders glob("*.json") may yield the files of a directory in
GlobOrders(files) ==
  { o \in [1..Cardinality(DOMAIN files) -> DOMAIN files] :
      \A i, j \in DOMAIN o : o[i] = o[j] => i = j }

\* the body of the loop for one file: open, read, json.loads and
\* SurfaceState(**data) inside try; any exception is logged and the loop
\* goes on.  A record is stored under the surface_id it holds.
LoadFile(loaded, content, ok) ==
  IF ok /\ content.valid
  THEN Put(loaded, ParseSurfaceState(content).surface_id, ParseSurfaceState(content))
  ELSE loaded

\* a loop that a file which does not parse ends
RECURSIVE LoadLoopAborting(_, _, _, _)
LoadLoopAborting(loaded, names, files, ok) ==
  IF names = << >> \/ ~(ok /\ files[Head(names)].valid) THEN loaded
  ELSE LoadLoopAborting(LoadFile(loaded, files[Head(names)], ok), Tail(names), files, ok)

\* for file_path in self._persistence_path.glob("*.json")
RECURSIVE LoadLoop(_, _, _, _)
LoadLoop(loaded, names, files, ok) ==
  IF names = << >> THEN loaded
  ELSE LoadLoop(LoadFile(loaded, files[Head(names)], ok), Tail(names), files, ok)

\* _load_persisted_surfaces into the empty self._surfaces
LoadPersistedSurfaces(files, order, ok) == LoadLoop(NoFunction, order, files, ok)

---------------------------------------------------------------------------
(* The state machine *)

VARIABLES surfaces, objs, wsClients, files, calls, ws, diskOk, web, issued, restarts

vars == <<surfaces, objs, wsClients, files, calls, ws, diskOk, web, issued, restarts>>

State ==
  [surfaces |-> surfaces, objs |-> objs, wsClients |-> wsClients,
   files |-> files, calls |-> calls, ws |-> ws, diskOk |-> diskOk, web |-> web]

Becomes(M) ==
  /\ surfaces' = M.surfaces
  /\ objs' = M.objs
  /\ wsClients' = M.wsClients
  /\ files' = M.files
  /\ calls' = M.calls
  /\ ws' = M.ws
  /\ diskOk' = M.diskOk
  /\ web' = M.web


\* what an earlier run of the process left in the persistence directory
KeyA == <<"a">>
KeyB == <<"b">>
StoredState ==
  [NewSurfaceState("s1", DefaultName, DefaultSize) EXCEPT
     !.components = <<Comp("root", "t1")>>,
     !.data_model = <<[p |-> <<KeyB>>, v |-> "v1"], [p |-> <<KeyA>>, v |-> "v1"]>>]
BlankState(sid) == NewSurfaceState(sid, DefaultName, DefaultSize)

\* an empty directory, and one surface with components and two data leaves
Directories ==
  { NoFunction, "s1" :> ModelDumpJson(StoredState) }
\* one surface, never updated
OneSurface ==
  { "s1" :> ModelDumpJson(BlankState("s1")) }
\* two surfaces, never updated
TwoSurfaces ==
  { ("s1" :> ModelDumpJson(BlankState("s1"))) @@ ("s2" :> ModelDumpJson(BlankState("s2"))) }

\* what the file <id>.json may hold: a record json.loads rejects, the
\* record of a surface never updated, the record of an updated one
DirContents(id) ==
  {EmptyFile, ModelDumpJson(BlankState(id))}
    \cup (IF id = "s1" THEN {ModelDumpJson(StoredState)} ELSE {})
\* every directory of such files
MixedDirectories ==
  UNION { { f \in [D -> UNION { DirContents(i) : i \in D }] :
              \A i \in D : f[i] \in DirContents(i) } : D \in SUBSET SurfaceIds }

\* data models an earlier run may have stored: none, two leaves, a leaf
\* below a dict, an empty dict
PointerModels ==
  { EmptyTree,
    <<[p |-> <<KeyB>>, v |-> "v1"], [p |-> <<KeyA>>, v |-> "v1"]>>,
    <<[p |-> <<KeyA>>, v |-> "map"], [p |-> <<KeyA, KeyB>>, v |-> "v1"]>>,
    <<[p |-> <<KeyA>>, v |-> "map"]>> }
PointerDirectories ==
  { "s1" :> ModelDumpJson([BlankState("s1") EXCEPT !.data_model = m]) : m \in PointerModels }

\* a manager constructed and initialized on one of the directories
InitOn(dirs) ==
  /\ files \in dirs
  /\ \E order \in GlobOrders(files) :
       objs = LoadPersistedSurfaces(files, order, TRUE)
  /\ surfaces = DOMAIN objs
  /\ wsClients = NoFunction
  /\ calls = [k \in 1..MaxCalls |-> NewCall]
  /\ ws = [w \in WsHandles |-> NewWs]
  /\ diskOk = TRUE
  /\ web = NewWeb
  /\ issued = DOMAIN objs
  /\ restarts = 0

Init == InitOn(Directories \cup OneSurface \cup TwoSurfaces)

Choices == [ord : Orders, skipNew : BOOLEAN]

InFlight == { k \in DOMAIN calls : calls[k].pc \notin {"new", "done"} }
Quiescent == InFlight = {}

\* the number of the next call: calls are numbered in the order they start
CanStart(k) ==
  /\ calls[k].pc = "new"
  /\ \A j \in 1..(k-1) : calls[j].pc # "new"
  /\ Cardinality(InFlight) < MaxTasks

\* _generate_surface_id: uuid4().hex[:12] is any id; nothing compares it
\* with the ids in use
Uuid4Ids == SurfaceIds

\* the ids among them that no surface of this directory or process has had:
\* the outcomes without a collision
GenerateSurfaceId ==
  { IdOrder[i] : i \in { j \in DOMAIN IdOrder :
                           /\ IdOrder[j] \notin issued
                           /\ \A h \in 1..(j-1) : IdOrder[h] \in issued } }

CreateSurface ==
  \E k \in DOMAIN calls, sid \in GenerateSurfaceId, ch \in Choices :
    /\ CanStart(k)
    /\ Becomes(Begin(State, k, "create", sid, << >>, << >>, NoVal, ch))
    /\ issued' = issued \cup {sid}
    /\ UNCHANGED restarts

\* create_surface with whatever id uuid4 gives
CreateSurfaceAnyId ==
  \E k \in DOMAIN calls, sid \in Uuid4Ids, ch \in Choices :
    /\ CanStart(k)
    /\ Becomes(Begin(State, k, "create", sid, << >>, << >>, NoVal, ch))
    /\ issued' = issued \cup {sid}
    /\ UNCHANGED restarts

UpdateComponents(S, L) ==
  \E k \in DOMAIN calls, sid \in S, comps \in L, ch \in Choices :
    /\ CanStart(k)
    /\ Becomes(Begin(State, k, "update_components", sid, comps, << >>, NoVal, ch))
    /\ UNCHANGED <<issued, restarts>>

UpdateDataModel(S, P, V) ==
  \E k \in DOMAIN calls, sid \in S, path \in P, value \in V,
     ch \in Choices :
    /\ CanStart(k)
    /\ Becomes(Begin(State, k, "update_data_model", sid, << >>, path, value, ch))
    /\ UNCHANGED <<issued, restarts>>

CloseSurface(S) ==
  \E k \in DOMAIN calls, sid \in S, ch \in Choices :
    /\ CanStart(k)
    /\ Becomes(Begin(State, k, "close", sid, << >>, << >>, NoVal, ch))
    /\ UNCHANGED <<issued, restarts>>

\* call k, suspended at pc, resumes and runs to its next suspension
Resumed(k, pc, ch) ==
  /\ calls[k].pc = pc
  /\ Becomes(Resume(State, k, ch))
  /\ UNCHANGED <<issued, restarts>>

\* _persist_surface resumes after aiofiles.open
FileOpened ==
  \E k \in DOMAIN calls, ch \in Choices : Resumed(k, "open", ch)
\* _persist_surface resumes after the write and the close of the file
FileWritten ==
  \E k \in DOMAIN calls, ch \in Choices : Resumed(k, "write", ch)
\* _ping_websockets, the for loops of one round: a closed channel is put on
\* dead_clients, a channel whose ping raises likewise, an open one suspends
\* the task in ws.ping(); the set changing size under the iteration raises
\* RuntimeError, which the outer handler logs: the round ends, nothing is
\* discarded; after the loop dead_clients are discarded from the server's set
PingRoundEnds(M, dead) ==
  [M EXCEPT !.web.pc = "sleep", !.web.itStart = {}, !.web.itSeen = {},
            !.web.dead = {}, !.web.ws_clients = @ \ dead, !.web.pruned = dead]

RECURSIVE PingLoop(_, _)
PingLoop(M, ch) ==
  LET t == M.web
      cand == t.ws_clients \ t.itSeen
  IN  IF Cardinality(t.ws_clients) # Cardinality(t.itStart)
      THEN [PingRoundEnds(M, {}) EXCEPT !.web.pruned = M.web.pruned]
      ELSE IF cand = {} \/ (ch.skipNew /\ cand \cap t.itStart = {})
      THEN PingRoundEnds(M, t.dead)
      ELSE LET w == FirstIn(ch.ord, cand)
               M1 == [M EXCEPT !.web.itSeen = @ \cup {w}]
           IN  IF M.ws[w].closed \/ M.ws[w].broken
               THEN PingLoop([M1 EXCEPT !.web.dead = @ \cup {w}], ch)
               ELSE [M1 EXCEPT !.web.pc = "probe"]

\* asyncio.sleep(WEBSOCKET_PING_INTERVAL) returns: a round starts when the
\* server has connections
PingRound ==
  /\ web.pc = "sleep" /\ ~web.cancelled
  /\ web.ws_clients # {}
  /\ \E ch \in Choices :
       Becomes(PingLoop([State EXCEPT !.web.itStart = web.ws_clients,
                                      !.web.itSeen = {}, !.web.dead = {}], ch))
  /\ UNCHANGED <<issued, restarts>>

\* ws.ping() returns and the round goes on
PingReturned ==
  /\ web.pc = "probe" /\ ~web.cancelled
  /\ \E ch \in Choices : Becomes(PingLoop(State, ch))
  /\ UNCHANGED <<issued, restarts>>

\* stop: self._ping_task.cancel()
StopCancels ==
  /\ web.pc # "done" /\ ~web.cancelled
  /\ web' = [web EXCEPT !.cancelled = TRUE]
  /\ UNCHANGED <<surfaces, objs, wsClients, files, calls, ws, diskOk, issued, restarts>>

\* the task as it would run if the handler around ws.ping() caught the
\* cancellation: the channel is taken for dead and the round goes on
PingCancelledSwallowing ==
  /\ web.pc \in {"sleep", "probe"} /\ web.cancelled
  /\ IF web.pc = "sleep"
     THEN /\ web' = [web EXCEPT !.pc = "done"]
          /\ UNCHANGED <<surfaces, objs, wsClients, files, calls, ws, diskOk>>
     ELSE \E ch \in Choices :
            Becomes(PingLoop([State EXCEPT !.web.dead = @ \cup web.itSeen,
                                           !.web.cancelled = FALSE], ch))
  /\ UNCHANGED <<issued, restarts>>

\* CancelledError is thrown into the task at its await (the sleep or the
\* ping); except Exception does not catch it, except CancelledError breaks
\* (itStart, itSeen and dead stay as the round left them)
PingCancelled ==
  /\ web.pc \in {"sleep", "probe"} /\ web.cancelled
  /\ web' = [web EXCEPT !.pc = "done"]
  /\ UNCHANGED <<surfaces, objs, wsClients, files, calls, ws, diskOk, issued, restarts>>

\* _broadcast_to_surface resumes after a send_str
SendReturned ==
  \E k \in DOMAIN calls, ch \in Choices : Resumed(k, "send", ch)
\* close_surface resumes after a client.close()
CloseReturned ==
  \E k \in DOMAIN calls, ch \in Choices : Resumed(k, "closing", ch)

\* T[i]: the ids the i-th connection may ask for
HandleWebsocket(T) ==
  \E i \in DOMAIN T : \E sid \in T[i] :
   LET w == WsOrder[i] IN
    /\ ws[w].pc = "new"
    /\ \A j \in 1..(i-1) : ws[WsOrder[j]].pc # "new"
    /\ Becomes(AcceptWebsocket(State, w, sid))
    /\ UNCHANGED <<issued, restarts>>

SendInitialState ==
  \E w \in WsHandles :
    /\ ws[w].pc \in {"r_comp", "r_dm", "r_leaf"}
    /\ Becomes(CASE ws[w].pc = "r_comp" -> ReplayComponents(State, w)
                 [] ws[w].pc = "r_dm" -> ReplayDataModel(State, w)
                 [] ws[w].pc = "r_leaf" -> ReplayLeaf(State, w))
    /\ UNCHANGED <<issued, restarts>>

\* "async for msg in ws" ends once the channel is closed or lost
HandlerReturns ==
  \E w \in WsHandles :
    /\ ws[w].pc = "listen"
    /\ ws[w].closed \/ ws[w].broken
    /\ Becomes(HandlerFinally(State, w))
    /\ UNCHANGED <<issued, restarts>>

\* the viewer goes away: sends on the channel raise from now on
ClientDisconnects ==
  \E w \in WsHandles :
    /\ ws[w].pc \in {"r_comp", "r_dm", "r_leaf", "listen"}
    /\ ~ws[w].closed /\ ~ws[w].broken
    /\ ws' = [ws EXCEPT ![w].broken = TRUE]
    /\ UNCHANGED <<surfaces, objs, wsClients, files, calls, diskOk, web, issued, restarts>>

\* file operations raise from now on
DiskFails ==
  /\ diskOk
  /\ diskOk' = FALSE
  /\ UNCHANGED <<surfaces, objs, wsClients, files, calls, ws, web, issued, restarts>>

\* the process ends with no call in flight and a new one runs initialize
\* over the same directory; every connection of the old process is gone
Restart ==
  /\ Quiescent
  /\ restarts < MaxRestarts
  /\ restarts' = restarts + 1
  /\ \E order \in GlobOrders(files) :
       objs' = LoadPersistedSurfaces(files, order, diskOk)
  /\ surfaces' = DOMAIN objs'
  /\ wsClients' = NoFunction
  /\ ws' = [w \in WsHandles |->
              IF ws[w].pc \in {"new", "done"} THEN ws[w]
              ELSE [ws[w] EXCEPT !.pc = "done", !.closed = TRUE, !.rest = << >>]]
  /\ issued' = issued \cup DOMAIN objs'
  /\ web' = NewWeb
  /\ UNCHANGED <<files, calls, diskOk>>

\* every operation, on every id, with every connection
Next ==
  \/ CreateSurface
  \/ UpdateComponents(SurfaceIds, RootLists \cup CompLists)
  \/ UpdateDataModel(SurfaceIds, Paths, Scalars \cup Values)
  \/ CloseSurface(SurfaceIds)
  \/ FileOpened
  \/ FileWritten
  \/ SendReturned
  \/ CloseReturned
  \/ HandleWebsocket([i \in DOMAIN WsOrder |-> SurfaceIds])
  \/ SendInitialState
  \/ HandlerReturns
  \/ ClientDisconnects
  \/ DiskFails
  \/ Restart
  \/ PingRound
  \/ PingReturned
  \/ StopCancels
  \/ PingCancelled

Spec == Init /\ [][Next]_vars

\* some call waits at pc
Waiting(pc) == \E k \in DOMAIN calls : calls[k].pc = pc

\* updates of one surface, each redefining what the one before defined,
\* while one viewer joins, stays or leaves
NextJoin ==
  \/ CreateSurface
  \/ UpdateComponents({"s1"}, RootLists)
  \/ UpdateDataModel({"s1"}, Paths, Scalars)
  \/ FileOpened
  \/ FileWritten
  \/ SendReturned
  \/ HandleWebsocket(<<{"s1"}>>)
  \/ SendInitialState
  \/ HandlerReturns
  \/ ClientDisconnects

SpecJoin == InitOn(Directories) /\ [][NextJoin]_vars

\* a send that was started returns; nothing is assumed of the disk
FairSpecJoin ==
  /\ SpecJoin
  /\ WF_vars(SendInitialState)
  /\ ([]<>~Waiting("send")) \/ []<><<SendReturned>>_vars


\* updates of one surface with every kind of argument, and one viewer
NextReplay ==
  \/ CreateSurface
  \/ UpdateComponents({"s1"}, RootLists \cup CompLists)
  \/ UpdateDataModel({"s1"}, {PathA, PathAB} \cup RootPaths, Values)
  \/ FileOpened
  \/ FileWritten
  \/ SendReturned
  \/ HandleWebsocket(<<{"s1"}>>)
  \/ SendInitialState

SpecReplay == InitOn(Directories) /\ [][NextReplay]_vars

\* a start on a directory with good and bad records, creates, one
\* connection to any id, and a restart
NextLoad ==
  \/ CreateSurface
  \/ FileOpened
  \/ FileWritten
  \/ HandleWebsocket(<<SurfaceIds, SurfaceIds>>)
  \/ SendInitialState
  \/ HandlerReturns
  \/ ClientDisconnects
  \/ Restart

SpecLoad == InitOn(MixedDirectories) /\ [][NextLoad]_vars

\* creates whose id may be one in use, on a directory with a stored surface
NextCreate ==
  \/ CreateSurfaceAnyId
  \/ FileOpened
  \/ FileWritten
  \/ HandleWebsocket(<<SurfaceIds>>)
  \/ SendInitialState

SpecCreate == InitOn(Directories) /\ [][NextCreate]_vars

\* data-model updates of one surface with paths of every shape
NextPointer ==
  \/ UpdateDataModel({"s1"}, PointerPaths, Values)
  \/ FileOpened
  \/ FileWritten

SpecPointer == InitOn(PointerDirectories) /\ [][NextPointer]_vars

\* a viewer that connected to a surface without components or data and was
\* sent its initial state
Joined(M, w, sid) == ReplayComponents(AcceptWebsocket(M, w, sid), w)

\* the manager right after initialize on a directory
Constructed(f, order) ==
  [surfaces |-> DOMAIN LoadPersistedSurfaces(f, order, TRUE),
   objs |-> LoadPersistedSurfaces(f, order, TRUE), wsClients |-> NoFunction,
   files |-> f, calls |-> [k \in 1..MaxCalls |-> NewCall],
   ws |-> [w \in WsHandles |-> NewWs], diskOk |-> TRUE, web |-> NewWeb]

\* the keep-alive task beside viewers that join, fail and leave
NextPing ==
  \/ HandleWebsocket(<<{"s1"}, {"s1"}>>)
  \/ SendInitialState
  \/ HandlerReturns
  \/ ClientDisconnects
  \/ PingRound
  \/ PingReturned
  \/ StopCancels
  \/ PingCancelled

SpecPing == InitOn(OneSurface) /\ [][NextPing]_vars


\* one surface and two viewers that joined it before any call
InitWatched ==
  /\ \E f \in OneSurface : \E order \in GlobOrders(f) :
       LET M == Joined(Joined(Constructed(f, order), "w1", "s1"), "w2", "s1")
       IN  /\ surfaces = M.surfaces /\ objs = M.objs /\ wsClients = M.wsClients
           /\ files = M.files /\ calls = M.calls /\ ws = M.ws /\ diskOk = M.diskOk
           /\ web = M.web
  /\ issued = surfaces
  /\ restarts = 0

\* updates and closes of a surface whose two viewers may fail and leave
NextSend ==
  \/ UpdateComponents({"s1"}, RootLists)
  \/ UpdateDataModel({"s1"}, Paths, Scalars)
  \/ CloseSurface({"s1"})
  \/ FileOpened
  \/ FileWritten
  \/ SendReturned
  \/ CloseReturned
  \/ HandlerReturns
  \/ ClientDisconnects

SpecSend == InitWatched /\ [][NextSend]_vars

\* creations and updates beside two viewers that may fail and leave
NextCast ==
  \/ CreateSurface
  \/ UpdateComponents({"s1"}, RootLists)
  \/ UpdateDataModel({"s1"}, Paths, Scalars)
  \/ FileOpened
  \/ FileWritten
  \/ SendReturned
  \/ HandlerReturns
  \/ ClientDisconnects

SpecCast == InitWatched /\ [][NextCast]_vars

\* updates of a watched surface, whose viewers may fail, beside the
\* keep-alive task and its stop
NextStop ==
  \/ UpdateComponents({"s1"}, RootLists)
  \/ FileOpened
  \/ FileWritten
  \/ SendReturned
  \/ ClientDisconnects
  \/ PingRound
  \/ PingReturned
  \/ StopCancels
  \/ PingCancelled

SpecStop == InitWatched /\ [][NextStop]_vars

\* the event loop runs a cancelled task at its next turn, and a file
\* operation or a send that an update awaits returns; nothing is assumed
\* of a pending ping
\* (weak fairness of FileOpened, FileWritten and SendReturned, each enabled
\* exactly when a call waits at that point)
FairSpecStop ==
  /\ SpecStop
  /\ WF_vars(PingCancelled)
  /\ ([]<>~Waiting("open")) \/ []<><<FileOpened>>_vars
  /\ ([]<>~Waiting("write")) \/ []<><<FileWritten>>_vars
  /\ ([]<>~Waiting("send")) \/ []<><<SendReturned>>_vars

\* closes of one surface with up to two viewers
NextClose ==
  \/ CloseSurface({"s1"})
  \/ SendReturned
  \/ CloseReturned
  \/ HandleWebsocket(<<{"s1"}, {"s1"}>>)
  \/ SendInitialState
  \/ HandlerReturns
  \/ ClientDisconnects

SpecClose == InitOn(OneSurface) /\ [][NextClose]_vars

\* two surfaces, each with a viewer
NextTwo ==
  \/ UpdateComponents(SurfaceIds, CompLists)
  \/ UpdateDataModel(SurfaceIds, Paths, Values)
  \/ CloseSurface(SurfaceIds)
  \/ FileOpened
  \/ FileWritten
  \/ SendReturned
  \/ CloseReturned
  \/ HandleWebsocket(<<{"s1"}, {"s2"}>>)
  \/ SendInitialState
  \/ HandlerReturns

SpecTwo == InitOn(TwoSurfaces) /\ [][NextTwo]_vars

\* one surface, a failing disk and a restart
NextDisk ==
  \/ CreateSurface
  \/ UpdateComponents({"s1"}, CompLists)
  \/ UpdateDataModel({"s1"}, Paths, Values)
  \/ FileOpened
  \/ FileWritten
  \/ SendReturned
  \/ HandleWebsocket(<<{"s1"}>>)
  \/ SendInitialState
  \/ DiskFails
  \/ Restart

SpecDisk == InitOn(Directories) /\ [][NextDisk]_vars

---------------------------------------------------------------------------
(* What a viewer holds and what the manager holds *)

\* the page's components and dataModel after the messages delivered to w
ClientOf(w) == HandleAll(EmptyClient, ws[w].inbox)

\* a components list as the page keeps one: by id
ComponentsById(list) == MergeComponents(NoComponents, list)

SameComponents(client, state) ==
  client.components = ComponentsById(state.components)
SameDataModel(client, state) ==
  TreeSet(client.dataModel) = TreeSet(state.data_model)

\* w has had its replay, its channel has never failed, and nothing that
\* would still send to it is in flight
Settled(w) ==
  /\ ws[w].pc = "listen"
  /\ ~ws[w].closed /\ ~ws[w].broken
  /\ ws[w].sid \in surfaces
  /\ Quiescent

UpdateKinds == {"update_components", "update_data_model"}

---------------------------------------------------------------------------
(* C1: a viewer that joins a surface while updates of it are in flight     *)
(* loses no update: once its replay and every broadcast to it have been    *)
(* delivered, the messages it received, applied in order, give the         *)
(* surface's components and data model.                                    *)
C1_JoinLosesNoUpdate ==
  \A w \in WsHandles :
    Settled(w) =>
      /\ SameComponents(ClientOf(w), objs[ws[w].sid])
      /\ SameDataModel(ClientOf(w), objs[ws[w].sid])

---------------------------------------------------------------------------
\* the deleteSurface notices of call k delivered to w
NoticesFrom(k, w) ==
  { i \in DOMAIN ws[w].inbox :
      ws[w].inbox[i].from = k /\ ws[w].inbox[i].type = "deleteSurface" }

CloseCalls == { k \in DOMAIN calls : calls[k].kind = "close" }

\* no send_str of a broadcast has raised
AllSendsSucceeded == \A j \in DOMAIN calls : calls[j].sendFailed = {}

(* C2: while no send fails, a close_surface call delivers exactly one     *)
(* deleteSurface notice to each subscriber registered when it was called,  *)
(* it closes none of them before its notice to that subscriber is in, and  *)
(* once it has returned canvas_get finds no surface under the id.          *)
C2_CloseNotifiesEachOnce ==
  \A k \in CloseCalls :
    AllSendsSucceeded =>
      /\ \A w \in WsHandles : Cardinality(NoticesFrom(k, w)) <= 1
      /\ \A w \in calls[k].closeTried \cap calls[k].atStart :
           Cardinality(NoticesFrom(k, w)) = 1
      /\ (calls[k].pc = "done" /\ calls[k].result = "ok") =>
           /\ \A w \in calls[k].atStart : Cardinality(NoticesFrom(k, w)) = 1
           /\ ~CanvasGetFound(State, calls[k].sid)

\* a close of a surface with two subscribers has returned
C2_Witness ==
  \E k \in CloseCalls :
    /\ calls[k].pc = "done" /\ calls[k].result = "ok"
    /\ AllSendsSucceeded
    /\ calls[k].atStart = WsHandles
    /\ calls[k].closeTried = WsHandles
    /\ \A w \in WsHandles : NoticesFrom(k, w) # {} /\ ws[w].closed

---------------------------------------------------------------------------
\* the page's state after the replay of a surface state and nothing else
Replayed(state) == HandleAll(EmptyClient, InitialStateMessages(state))

(* C3: with no operation in flight, the replay send_initial_state makes of *)
(* a surface, applied to an empty page, gives the surface's components and *)
(* data model.                                                             *)
C3_ReplayReconstructs ==
  Quiescent =>
    \A s \in surfaces :
      /\ SameComponents(Replayed(objs[s]), objs[s])
      /\ SameDataModel(Replayed(objs[s]), objs[s])

---------------------------------------------------------------------------
\* message i of w's inbox is the broadcast of an update call
IsUpdateAt(w, i) ==
  /\ ws[w].inbox[i].from # 0
  /\ calls[ws[w].inbox[i].from].kind \in UpdateKinds

(* C4: the update messages a subscriber receives arrive in the order the   *)
(* calls mutated the surface.  A call mutates before its first suspension, *)
(* so the order of the mutations is the order the calls were started in,   *)
(* which is the order of their numbers.                                    *)
C4_BroadcastsInMutationOrder ==
  \A w \in WsHandles :
    \A i, j \in DOMAIN ws[w].inbox :
      (i < j /\ IsUpdateAt(w, i) /\ IsUpdateAt(w, j)) =>
        ws[w].inbox[i].from <= ws[w].inbox[j].from

---------------------------------------------------------------------------
(* C5: every message a subscriber receives from an update_components,      *)
(* update_data_model or close_surface call comes from a call on the        *)
(* surface the subscriber registered on.                                   *)
C5_NoCrossSurfaceBroadcast ==
  \A w \in WsHandles :
    \A i \in DOMAIN ws[w].inbox :
      ws[w].inbox[i].from # 0 =>
        calls[ws[w].inbox[i].from].sid = ws[w].sid

\* two surfaces, a subscriber on each, and each has received a broadcast
C5_Witness ==
  /\ ws["w1"].sid # ws["w2"].sid
  /\ \A w \in WsHandles :
       \E i \in DOMAIN ws[w].inbox : ws[w].inbox[i].from # 0

---------------------------------------------------------------------------
\* the names of the steps call k has entered, in order
StepsOf(k) == [i \in DOMAIN calls[k].log |-> calls[k].log[i].step]

UpdateCalls == { k \in DOMAIN calls : calls[k].kind \in UpdateKinds }

\* some subscriber holds the message call k broadcast
Received(k) ==
  \E w \in WsHandles : \E i \in DOMAIN ws[w].inbox : ws[w].inbox[i].from = k

(* C6: an update call whose message some subscriber has received has       *)
(* mutated the in-memory state and has attempted its persistence write,    *)
(* and it entered its steps in the order mutate, persist, broadcast.       *)
C6_MutatePersistBroadcast ==
  \A k \in UpdateCalls :
    Received(k) =>
      /\ calls[k].mutated
      /\ calls[k].persistTried
      /\ calls[k].pc \notin {"open", "write"}
      /\ StepsOf(k) = PlanOf(calls[k].kind)
      /\ StepsOf(k)[3] = "broadcast"

\* an update_components call has returned and a subscriber holds its message
C6_Witness ==
  \E k \in UpdateCalls :
    /\ calls[k].kind = "update_components"
    /\ calls[k].pc = "done" /\ calls[k].result = "ok"
    /\ Received(k)

---------------------------------------------------------------------------
\* no call of k's kind on k's surface has mutated the state after k did
LatestOfKind(k) ==
  \A j \in DOMAIN calls :
    (j > k /\ calls[j].kind = calls[k].kind /\ calls[j].sid = calls[k].sid)
      => ~calls[j].mutated

\* the in-memory state still holds what call k put there
MutationKept(k) ==
  LET c == calls[k]
  IN  /\ c.sid \in surfaces
      /\ c.kind = "update_components" => objs[c.sid].components = c.comps
      /\ c.kind = "update_data_model" =>
           LET p == Split(Strip(c.path))
           IN  /\ HasNode(objs[c.sid].data_model, p)
               /\ TagOf(objs[c.sid].data_model, p) = c.value

\* calls whose persistence write failed and which have ended
FailedToPersist ==
  { k \in DOMAIN calls : calls[k].persistFailed /\ calls[k].pc = "done" }

(* C7: a create_surface, update_components or update_data_model call whose *)
(* persistence write failed returns without an error; until the process    *)
(* ends the surface is in the store, holding the call's mutation unless a  *)
(* later call of the same kind replaced it, and every subscriber           *)
(* registered when the call started holds its update message.              *)
C7_PersistFailureIsSwallowed ==
  \A k \in FailedToPersist :
    /\ calls[k].result = "ok"
    /\ restarts = 0 =>
         /\ LatestOfKind(k) => MutationKept(k)
         /\ calls[k].kind \in UpdateKinds =>
              \A w \in calls[k].atStart :
                \E i \in DOMAIN ws[w].inbox : ws[w].inbox[i] = MessageOf(calls[k], k)

\* an update whose persistence failed has returned, and a subscriber was
\* registered when it started
C7_Witness ==
  \E k \in FailedToPersist :
    /\ calls[k].kind \in UpdateKinds
    /\ calls[k].result = "ok"
    /\ restarts = 0
    /\ calls[k].atStart # {}
    /\ MutationKept(k)

---------------------------------------------------------------------------
\* what call k saw when it entered the step named step, if it has
EntriesOf(k, step) ==
  { calls[k].log[i] : i \in { j \in DOMAIN calls[k].log : calls[k].log[j].step = step } }

(* C8 as stated: close_surface notifies, closes and discards the handles,  *)
(* deletes the persisted record and only then removes the surface from the *)
(* store: when it comes to remove the surface, the record is gone.         *)
C8_RecordDeletedBeforeRemoval ==
  \A k \in CloseCalls :
    /\ IsPrefix(StepsOf(k),
                <<"check", "broadcast", "close_clients", "unlink", "remove">>)
    /\ \A e \in EntriesOf(k, "remove") : ~e.stored

(* C8 as the code has it: close_surface notifies, closes and discards the  *)
(* handles, removes the surface from the store and only then deletes the   *)
(* persisted record: when it comes to delete the record, every handle it   *)
(* popped has had its close and the surface is no longer in the store.     *)
C8_RemovedBeforeRecordDeleted ==
  \A k \in CloseCalls :
    /\ IsPrefix(StepsOf(k),
                <<"check", "broadcast", "close_clients", "remove", "unlink">>)
    /\ EntriesOf(k, "remove") # {} =>
         /\ calls[k].popped \subseteq calls[k].closeTried
         /\ \A w \in calls[k].popped : ws[w].closed
    /\ \A e \in EntriesOf(k, "unlink") : ~e.live

\* a close of a surface with a subscriber and a persisted record has
\* returned: the record was there when the surface left the store
C8_Witness ==
  \E k \in CloseCalls :
    /\ calls[k].pc = "done" /\ calls[k].result = "ok"
    /\ calls[k].atStart # {}
    /\ \E e \in EntriesOf(k, "remove") : e.stored
    /\ \E e \in EntriesOf(k, "unlink") : e.stored /\ ~e.live
    /\ calls[k].sid \notin DOMAIN files

---------------------------------------------------------------------------
(* C9: when close_surface returns, every channel that was registered on    *)
(* the surface when it was called has had a close, whether or not a send   *)
(* or a close on some channel failed, and the surface is out of the store. *)
C9_EveryChannelClosed ==
  \A k \in CloseCalls :
    (calls[k].pc = "done" /\ calls[k].result = "ok") =>
      /\ \A w \in calls[k].atStart : ws[w].closed
      /\ calls[k].sid \notin surfaces

---------------------------------------------------------------------------
(* C10: a restart that no persistence failure preceded brings back every   *)
(* surface that was live before it, under the same id, with the same       *)
(* components and data model, and with no subscriber.                      *)
C10_RestartRestores ==
  [][ (restarts' = restarts + 1 /\ diskOk) =>
        \A s \in surfaces :
          /\ s \in surfaces'
          /\ objs'[s].surface_id = s
          /\ objs'[s].components = objs[s].components
          /\ TreeSet(objs'[s].data_model) = TreeSet(objs[s].data_model)
          /\ ConnectedClients([wsClients |-> wsClients'], s) = 0 ]_vars

---------------------------------------------------------------------------
\* the files of the directory json.loads and SurfaceState accept
GoodRecords == { f \in DOMAIN files : files[f].valid }

\* initialize has run and no tool call has been made since
JustInitialized == restarts = 0 /\ \A k \in DOMAIN calls : calls[k].pc = "new"

(* C11: a start over a directory loads every record that parses, whatever  *)
(* the number of records that do not and whatever the order the files are  *)
(* read in: the surfaces after initialize are those of the good records,   *)
(* each with the state its record holds.                                   *)
C11_LoadSkipsCorrupt ==
  /\ \A order \in GlobOrders(files) :
       LET loaded == LoadPersistedSurfaces(files, order, TRUE)
       IN  /\ DOMAIN loaded = GoodRecords
           /\ \A f \in GoodRecords : loaded[f] = ParseSurfaceState(files[f])
  /\ JustInitialized =>
       /\ surfaces = GoodRecords
       /\ \A s \in surfaces : objs[s] = ParseSurfaceState(files[s])

\* a start over a directory with a record that parses and one that does not
C11_Witness ==
  /\ JustInitialized
  /\ GoodRecords # {}
  /\ DOMAIN files \ GoodRecords # {}
  /\ surfaces = GoodRecords

---------------------------------------------------------------------------
\* the sends of call k's message that reached w
CopiesFrom(k, w) ==
  { i \in DOMAIN ws[w].inbox : ws[w].inbox[i].from = k }

\* the subscriber set call k's broadcast started from
BroadcastSet(k) ==
  UNION { e.clients : e \in EntriesOf(k, "broadcast") }

\* call k is suspended in its broadcast and the set it iterates has changed
\* size since the loop began
SetResizedUnder(k) ==
  LET c == calls[k]
      cur == IF c.itLive THEN ClientsOf(State, c.sid) ELSE c.itFrozen
  IN  c.pc = "send" /\ Cardinality(cur) # Cardinality(c.itStart)

\* the set has changed size, or the registry has lost the surface's key
SetChangedUnder(k) ==
  \/ SetResizedUnder(k)
  \/ calls[k].pc = "send" /\ calls[k].sid \notin DOMAIN wsClients

\* the step in which update call k, having mutated its surface, returns or raises
UpdateEnds(k) ==
  /\ calls[k].pc # "done"
  /\ calls'[k].pc = "done"
  /\ calls'[k].kind \in UpdateKinds
  /\ calls'[k].mutated

(* C12: a send that raises does not end the broadcast of an update: the    *)
(* call raises only if the subscriber set was changed under the loop by a  *)
(* join, a leave or a close while a send was awaited; when the call        *)
(* returns, no subscriber holds its message twice, every subscriber the    *)
(* broadcast started from that is still registered holds it once, and the  *)
(* step that ends the broadcast removes from the surface's set exactly the *)
(* subscribers whose send raised.                                          *)
C12_SendFailureDoesNotAbort ==
  [][\A k \in DOMAIN calls :
       UpdateEnds(k) =>
         /\ calls'[k].result # "ok" => SetChangedUnder(k)
         /\ calls'[k].result = "ok" =>
              LET sid == calls'[k].sid
                  after == IF sid \in DOMAIN wsClients' THEN wsClients'[sid] ELSE {}
              IN  /\ after = ClientsOf(State, sid) \ calls'[k].sendFailed
                  /\ \A w \in WsHandles : Cardinality(CopiesFrom(k, w)') <= 1
                  /\ \A w \in BroadcastSet(k)' \cap after :
                       Cardinality(CopiesFrom(k, w)') = 1]_vars

\* an update returned after a broadcast in which the send to one subscriber
\* raised and the send to another did not: the first is out of the set,
\* the second is in it and holds the message
C12_Witness ==
  \E k \in UpdateCalls : \E w, x \in WsHandles :
    /\ calls[k].pc = "done" /\ calls[k].result = "ok"
    /\ {w, x} \subseteq BroadcastSet(k)
    /\ w \in calls[k].sendFailed /\ w \notin ClientsOf(State, "s1")
    /\ x \notin calls[k].sendFailed /\ x \in ClientsOf(State, "s1")
    /\ Cardinality(CopiesFrom(k, x)) = 1
    /\ CopiesFrom(k, w) = {}

---------------------------------------------------------------------------
(* C13: no send failure reaches the caller of an update: an update of a    *)
(* surface that was live when the call started returns success whichever   *)
(* sends raise, also when a concurrent close_surface closes the surface    *)
(* while the broadcast is in progress.  (A set that a join or a leave      *)
(* resized under the loop is left aside here.)                             *)
C13_SendFailureNeverSurfaces ==
  [][\A k \in DOMAIN calls :
       UpdateEnds(k) /\ ~SetResizedUnder(k) => calls'[k].result = "ok"]_vars

---------------------------------------------------------------------------
\* the subscriber sets of the surfaces other than sid
OtherSets(M, sid) ==
  [s \in DOMAIN M.wsClients \ {sid} |-> M.wsClients[s]]

\* the handles whose handler registered them and has not reached its finally
Attached == { w \in WsHandles : ws[w].pc \in {"r_comp", "r_dm", "r_leaf", "listen"} }

(* C14: in every reachable state, register_ws_client for an id without a   *)
(* live surface returns false and leaves the registry as it is; for a live *)
(* surface it returns true, the handle is in the surface's set afterwards, *)
(* and registering the same handle again changes neither the registry nor  *)
(* the subscriber count.  A connection refused this way is closed and in   *)
(* no set; one accepted is in the set of its surface while no broadcast    *)
(* or handler has removed it.                                              *)
C14_RegisterWsClient ==
  /\ \A sid \in SurfaceIds, w \in WsHandles :
       LET once == RegisterWsClient(State, sid, w)
           twice == RegisterWsClient(once, sid, w)
       IN  IF sid \notin surfaces
           THEN ~RegisterWsClientResult(State, sid) /\ once = State
           ELSE /\ RegisterWsClientResult(State, sid)
                /\ w \in ClientsOf(once, sid)
                /\ ClientsOf(once, sid) = ClientsOf(State, sid) \cup {w}
                /\ OtherSets(once, sid) = OtherSets(State, sid)
                /\ RegisterWsClientResult(once, sid)
                /\ twice = once
                /\ ConnectedClients(twice, sid) = ConnectedClients(once, sid)
  /\ \A w \in Attached : restarts = 0 => w \in ClientsOf(State, ws[w].sid)
  /\ \A w \in WsHandles :
       ws[w].pc = "done" /\ ws[w].inbox = << >> /\ restarts = 0 =>
         \A s \in DOMAIN wsClients : w \notin wsClients[s]

\* one connection was refused for an id without a live surface and the
\* registry has no set for that id; another was accepted and is the one
\* subscriber of its surface
C14_Witness ==
  \E w, x \in WsHandles :
    /\ ws[w].pc = "done" /\ ws[w].inbox = << >>
    /\ ws[w].sid \notin surfaces /\ ws[w].sid \notin DOMAIN wsClients
    /\ x \in Attached /\ ws[x].sid \in surfaces
    /\ ClientsOf(State, ws[x].sid) = {x}

---------------------------------------------------------------------------
(* C15: in every reachable state, unregister_ws_client takes the handle    *)
(* out of the surface's subscriber set and changes nothing else: no other  *)
(* surface's set, no key of the registry; when the handle is not in the    *)
(* set or the registry has no set for the id, the state stays as it is;    *)
(* a second call changes nothing.  A handler that has returned has left    *)
(* its handle in no set.                                                   *)
C15_UnregisterWsClient ==
  /\ \A sid \in SurfaceIds, w \in WsHandles :
       LET once == UnregisterWsClient(State, sid, w)
           twice == UnregisterWsClient(once, sid, w)
       IN  /\ ClientsOf(once, sid) = ClientsOf(State, sid) \ {w}
           /\ OtherSets(once, sid) = OtherSets(State, sid)
           /\ DOMAIN once.wsClients = DOMAIN wsClients
           /\ [once EXCEPT !.wsClients = wsClients] = State
           /\ w \notin ClientsOf(State, sid) => once = State
           /\ twice = once
  /\ \A w \in WsHandles :
       ws[w].pc = "done" => \A s \in DOMAIN wsClients : w \notin wsClients[s]

\* the handler of a registered handle has returned and its handle is out
\* of a set that still exists, while another handle is still registered
C15_Witness ==
  \E w, x \in WsHandles :
    /\ ws[w].pc = "done" /\ ws[w].inbox # << >>
    /\ ws[w].sid \in DOMAIN wsClients /\ w \notin wsClients[ws[w].sid]
    /\ x \in Attached /\ x \in ClientsOf(State, ws[x].sid)

---------------------------------------------------------------------------
\* the create_surface calls that have returned
Created == { k \in DOMAIN calls : calls[k].kind = "create" /\ calls[k].result = "ok" }

(* C16: the connected_clients of a live surface is the number of handles   *)
(* registered on it; while no broadcast has dropped a handle, that is the  *)
(* number of connections that asked for it, were accepted and have not     *)
(* left: 0 while nobody has connected to a surface, be it created by       *)
(* create_surface or loaded from storage.                                  *)
C16_SubscriberCount ==
  \A s \in surfaces :
    /\ ConnectedClients(State, s) = Cardinality({ w \in WsHandles : w \in ClientsOf(State, s) })
    /\ ConnectedClients(State, s) = Cardinality({ w \in Attached : ws[w].sid = s })
    /\ (\A w \in WsHandles : ws[w].sid # s) => ConnectedClients(State, s) = 0

\* a surface loaded from storage has one subscriber after one registration
\* and a surface create_surface returned has none
C16_Witness ==
  \E s \in surfaces : \E k \in Created : \E w \in Attached :
    /\ \A j \in DOMAIN calls : calls[j].sid # s
    /\ ws[w].sid = s
    /\ ConnectedClients(State, s) = 1
    /\ calls[k].sid \in surfaces
    /\ ConnectedClients(State, calls[k].sid) = 0

---------------------------------------------------------------------------
\* the step in which the tool layer calls operation k
CallStarts(k) == calls[k].pc = "new" /\ calls'[k].pc # "new"

(* C17: an update_components, update_data_model or close_surface call for  *)
(* an id without a live surface raises the not-found ValueError in the     *)
(* step that starts it and changes nothing: the surfaces, their states,    *)
(* the subscriber sets, the persisted records, the channels and their      *)
(* inboxes and the other calls are the same after the step as before.      *)
C17_NotFoundHasNoEffect ==
  [][\A k \in DOMAIN calls :
       /\ CallStarts(k)
       /\ calls'[k].kind \in UpdateKinds \cup {"close"}
       /\ calls'[k].sid \notin surfaces
       => /\ calls'[k].pc = "done"
          /\ calls'[k].result = "ValueError"
          /\ ~calls'[k].mutated /\ ~calls'[k].persistTried
          /\ UNCHANGED <<surfaces, objs, wsClients, files, ws, diskOk>>
          /\ \A j \in DOMAIN calls \ {k} : calls'[j] = calls[j]]_vars

\* an update or a close was refused for a surface an earlier close had
\* removed, while a viewer of the other surface is connected
C17_Witness ==
  \E k \in DOMAIN calls : \E w \in WsHandles :
    /\ calls[k].kind \in UpdateKinds \cup {"close"}
    /\ calls[k].result = "ValueError"
    /\ ~calls[k].log[1].live
    /\ calls[k].sid \notin surfaces
    /\ w \in Attached /\ ws[w].sid \in surfaces

---------------------------------------------------------------------------
(* C18: an update_data_model call with the path "" or "/" for a live       *)
(* surface raises ValueError in the step that starts it, whatever the data *)
(* model holds, and changes nothing: the surface's data model, components  *)
(* and updated_at, the persisted records, the subscriber sets and the      *)
(* channels with their inboxes are the same after the step as before, and  *)
(* no persistence write is attempted.                                      *)
C18_RootPathIsRejected ==
  [][\A k \in DOMAIN calls :
       /\ CallStarts(k)
       /\ calls'[k].kind = "update_data_model"
       /\ calls'[k].path \in RootPaths
       /\ calls'[k].sid \in surfaces
       => /\ calls'[k].pc = "done"
          /\ calls'[k].result = "ValueError"
          /\ ~calls'[k].mutated /\ ~calls'[k].persistTried
          /\ UNCHANGED <<surfaces, objs, wsClients, files, ws, diskOk>>
          /\ \A j \in DOMAIN calls \ {k} : calls'[j] = calls[j]]_vars

\* a root-path update of a live surface that holds data and has a
\* subscriber was refused
C18_Witness ==
  \E k \in DOMAIN calls : \E w \in WsHandles :
    /\ calls[k].kind = "update_data_model"
    /\ calls[k].path \in RootPaths
    /\ calls[k].result = "ValueError"
    /\ calls[k].log[1].live /\ calls[k].log[1].subs
    /\ calls[k].sid \in surfaces
    /\ objs[calls[k].sid].data_model # EmptyTree
    /\ w \in ClientsOf(State, calls[k].sid)

---------------------------------------------------------------------------
\* the segments of a path after one leading and one trailing slash are dropped
SingleStripped(path) ==
  LET a == JsDropLeadingSlash(path)
  IN  IF a # << >> /\ Last(a) = "/" THEN Front(a) ELSE a

\* a valid non-root path: it decodes to one or more segments, none empty
ValidPath(path) ==
  /\ path \notin RootPaths
  /\ \A i \in DOMAIN Split(SingleStripped(path)) : Split(SingleStripped(path))[i] # << >>

\* update_data_model calls that returned
DataCalls ==
  { k \in DOMAIN calls : calls[k].kind = "update_data_model" /\ calls[k].result = "ok" }

(* C19: for every data model the surface can hold, every valid non-root    *)
(* path and every value, when _set_json_pointer returns, a lookup that     *)
(* walks the path's segments from the root of the dict yields the value.   *)
C19_SetGetRoundTrip ==
  \A s \in surfaces : \A path \in AllPaths : \A value \in Values \cup Scalars :
    LET r == SetJsonPointer(objs[s].data_model, path, value)
    IN  ValidPath(path) /\ r.err = "" =>
          GetWalk(r.tree, << >>, Split(Strip(path))) = value

\* the last update to return set a value two segments deep, and the lookup
\* of its path in the surface's data model yields that value
C19_Witness ==
  \E k \in DataCalls :
    /\ \A j \in DataCalls : j <= k
    /\ ValidPath(calls[k].path)
    /\ Len(Split(Strip(calls[k].path))) = 2
    /\ GetWalk(objs[calls[k].sid].data_model, << >>, Split(Strip(calls[k].path)))
         = calls[k].value

---------------------------------------------------------------------------
\* the pairs _flatten_data_model returns for a dict
FlattenedPairs(obj) ==
  { FlattenDataModel(obj)[i] : i \in DOMAIN FlattenDataModel(obj) }

(* C20: whenever update_data_model has set a value at a non-root path,     *)
(* flattening the surface's data model right after the set yields the pair *)
(* of that path and that value.                                            *)
C20_FlattenHasSetPair ==
  [][\A k \in DOMAIN calls :
       /\ CallStarts(k)
       /\ calls'[k].kind = "update_data_model"
       /\ calls'[k].path \notin RootPaths
       /\ calls'[k].mutated
       => Leaf(calls'[k].path, calls'[k].value)
            \in FlattenedPairs(objs'[calls'[k].sid].data_model)]_vars

---------------------------------------------------------------------------
\* the walk of the path's segments over dict t comes to an existing value
\* that is not a dict before it has used its last segment
MeetsNonMapping(t, path) ==
  LET parts == Split(Strip(path))
  IN  \E n \in 1..(Len(parts) - 1) :
        /\ HasNode(t, SubSeq(parts, 1, n))
        /\ TagOf(t, SubSeq(parts, 1, n)) # "map"
        /\ \A m \in 1..(n - 1) : HasNode(t, SubSeq(parts, 1, m))

(* C21: an update_data_model whose path runs through an existing value     *)
(* that is not a mapping has a defined outcome: the value is set, or the   *)
(* call is refused as an invalid path; it does not abort with another      *)
(* error, and a call that did not set the value leaves the surface's state *)
(* as it was.                                                              *)
C21_NonMappingIntermediate ==
  [][\A k \in DOMAIN calls :
       /\ CallStarts(k)
       /\ calls'[k].kind = "update_data_model"
       /\ calls'[k].sid \in surfaces
       /\ calls'[k].path \notin RootPaths
       /\ MeetsNonMapping(objs[calls'[k].sid].data_model, calls'[k].path)
       => /\ calls'[k].mutated \/ calls'[k].result = "ValueError"
          /\ ~calls'[k].mutated => objs' = objs]_vars

---------------------------------------------------------------------------
\* the keys of every dict of the tree
KeysOf(t) == UNION { { t[i].p[j] : j \in DOMAIN t[i].p } : i \in DOMAIN t }

(* C22: the path of every update_data_model that has set its value decoded *)
(* to segments that are all non-empty, the same ones that dropping one     *)
(* leading and one trailing slash gives, and no data model holds a value   *)
(* under the empty string as key.                                          *)
C22_NoEmptySegment ==
  /\ \A k \in DOMAIN calls :
       calls[k].kind = "update_data_model" /\ calls[k].mutated =>
         /\ \A i \in DOMAIN Split(Strip(calls[k].path)) :
              Split(Strip(calls[k].path))[i] # << >>
         /\ Split(Strip(calls[k].path)) = Split(SingleStripped(calls[k].path))
  /\ \A s \in surfaces : << >> \notin KeysOf(objs[s].data_model)

---------------------------------------------------------------------------
\* surface state st without the fields in the record r of replacements
SameExcept(st, old, fields) ==
  \A f \in DOMAIN old : f \notin fields => st[f] = old[f]

(* C23: the step in which update_components replaces the components of a   *)
(* live surface makes them exactly the given list and leaves the surface's *)
(* id, name, size, created_at and data model, the set of surfaces and the  *)
(* state of every other surface as they were.                              *)
C23_ComponentsReplaced ==
  [][\A k \in DOMAIN calls :
       /\ CallStarts(k)
       /\ calls'[k].kind = "update_components"
       /\ calls'[k].mutated
       => LET sid == calls'[k].sid
          IN  /\ objs'[sid].components = calls'[k].comps
              /\ SameExcept(objs'[sid], objs[sid], {"components", "updated_at"})
              /\ surfaces' = surfaces
              /\ DOMAIN objs' = DOMAIN objs
              /\ \A s \in DOMAIN objs \ {sid} : objs'[s] = objs[s]]_vars

\* after a create, an update has replaced the stored root component of s1
\* by another component: the root is gone, the data leaves and s2 are there
C23_Witness ==
  /\ calls[1].kind = "create" /\ calls[1].result = "ok"
  /\ calls[2].kind = "update_components" /\ calls[2].mutated
  /\ calls[2].sid = "s1"
  /\ calls[2].comps = <<Comp("x", "t1")>>
  /\ objs["s1"].components = <<Comp("x", "t1")>>
  /\ objs["s1"].data_model = StoredState.data_model
  /\ "s2" \in surfaces

---------------------------------------------------------------------------
\* key path p lies on the walk of parts, or below its end
OnPath(p, parts) == IsPrefix(p, parts) \/ IsPrefix(parts, p)

(* C24: the step in which update_data_model sets a value in a live         *)
(* surface's data model changes the data model along the path only: the    *)
(* lookup of the path yields the value, every segment before the last      *)
(* names a mapping, every key off the path is there with the value it had  *)
(* and no key off the path is new; the surface's other fields but          *)
(* updated_at, the set of surfaces and every other surface are unchanged.  *)
C24_DataModelPatched ==
  [][\A k \in DOMAIN calls :
       /\ CallStarts(k)
       /\ calls'[k].kind = "update_data_model"
       /\ calls'[k].mutated
       => LET sid == calls'[k].sid
              parts == Split(Strip(calls'[k].path))
              old == objs[sid].data_model
              new == objs'[sid].data_model
          IN  /\ GetWalk(new, << >>, parts) = calls'[k].value
              /\ \A n \in 1..(Len(parts) - 1) : IsMapAt(new, SubSeq(parts, 1, n))
              /\ { n \in TreeSet(old) : ~OnPath(n.p, parts) }
                   = { n \in TreeSet(new) : ~OnPath(n.p, parts) }
              /\ \A n \in TreeSet(old) : IsStrictPrefix(n.p, parts) => HasNode(new, n.p)
              /\ SameExcept(objs'[sid], objs[sid], {"data_model", "updated_at"})
              /\ surfaces' = surfaces
              /\ DOMAIN objs' = DOMAIN objs
              /\ \A s \in DOMAIN objs \ {sid} : objs'[s] = objs[s]]_vars

\* the second update has set /a/b below the mapping the first one stored
\* at /a, and the stored leaf /b is there with its value
C24_Witness ==
  /\ calls[1].kind = "update_data_model" /\ calls[1].path = PathA
  /\ calls[2].kind = "update_data_model" /\ calls[2].path = PathAB
  /\ calls[2].mutated
  /\ GetWalk(objs["s1"].data_model, << >>, <<KeyA, KeyB>>) = calls[2].value
  /\ GetWalk(objs["s1"].data_model, << >>, <<KeyB>>) = "v1"
  /\ objs["s1"].components = StoredState.components

---------------------------------------------------------------------------
(* C25: the id a create_surface call allocates is not the id of a surface  *)
(* in the store, loaded ones included: the step that starts the call       *)
(* leaves the state and the subscriber set of every surface that was in    *)
(* the store as they were.                                                 *)
C25_CreateAllocatesFreshId ==
  [][\A k \in DOMAIN calls :
       CallStarts(k) /\ calls'[k].kind = "create" =>
         /\ calls'[k].sid \notin surfaces
         /\ \A s \in surfaces :
              /\ objs'[s] = objs[s]
              /\ s \in DOMAIN wsClients =>
                   s \in DOMAIN wsClients' /\ wsClients'[s] = wsClients[s]]_vars

---------------------------------------------------------------------------
\* the messages send_initial_state has sent to w, in order
ReplayOf(w) == SelectSeq(ws[w].inbox, LAMBDA m : m.from = 0)

\* no update has changed the surface w asked for
Unchanged(w) ==
  \A k \in DOMAIN calls :
    calls[k].kind \in UpdateKinds /\ calls[k].sid = ws[w].sid => ~calls[k].mutated

\* what the replay of state st is to consist of
ReplayLength(st) ==
  1 + (IF st.components # << >> THEN 1 ELSE 0) + Len(FlattenDataModel(st.data_model))

(* C26: the messages send_initial_state sends to a subscriber begin with   *)
(* createSurface for its surface; an updateComponents, if any, is the      *)
(* second and the only one; all the others are updateDataModel.  When no   *)
(* update has changed the surface, the updateComponents is there exactly   *)
(* if the components are not empty and carries all of them, the            *)
(* updateDataModel messages are the leaves flatten gives, one each and in  *)
(* its order, and a replay that has finished has sent them all.            *)
C26_ReplayShape ==
  \A w \in Attached :
    LET r == ReplayOf(w)
        st == objs[ws[w].sid]
        c == IF st.components # << >> THEN 1 ELSE 0
        leaves == FlattenDataModel(st.data_model)
    IN  /\ r # << >>
        /\ r[1].type = "createSurface" /\ r[1].surfaceId = ws[w].sid
        /\ \A i \in 2..Len(r) :
             \/ r[i].type = "updateComponents" /\ i = 2
             \/ r[i].type = "updateDataModel"
        /\ ws[w].sid \in surfaces /\ Unchanged(w) =>
             /\ Len(r) <= ReplayLength(st)
             /\ ws[w].pc = "listen" => Len(r) = ReplayLength(st)
             /\ Len(r) >= 2 /\ c = 1 =>
                  r[2].type = "updateComponents" /\ r[2].components = st.components
             /\ \A i \in (2 + c)..Len(r) :
                  /\ r[i].type = "updateDataModel"
                  /\ r[i].path = leaves[i - 1 - c].path
                  /\ r[i].value = leaves[i - 1 - c].value

\* one finished replay of the stored surface (a component list and two
\* leaves: four messages)
C26_Witness ==
  \E w \in Attached :
    /\ ws[w].pc = "listen" /\ ws[w].sid = "s1" /\ Unchanged(w)
    /\ objs["s1"] = StoredState
    /\ Len(ReplayOf(w)) = 4

\* C27: a channel the keep-alive round found dead (closed, or its ping
\* raised) and discarded is from then on not a registered subscriber of its
\* surface, so neither counted nor a target of broadcasts
C27_ProbeFailurePrunes ==
  \A w \in web.pruned : w \notin ClientsOf(State, ws[w].sid)

\* C28: once stop has cancelled the keep-alive task the task terminates,
\* from its sleep as from a pending probe; and an update that has started
\* completes without waiting for the task, even when a ping never returns
C28_KeepAliveCancellable ==
  /\ web.cancelled ~> web.pc = "done"
  /\ \A k \in 1..MaxCalls : calls[k].pc # "new" ~> calls[k].pc = "done"

\* the task was cancelled in the middle of a round, has terminated, and an
\* update is in flight
C28_Witness ==
  /\ web.pc = "done" /\ web.itSeen # {}
  /\ \E k \in DOMAIN calls : calls[k].pc \notin {"new", "done"}

\* the persistence write of update call k is pending
WritePending(k) ==
  /\ calls[k].kind \in UpdateKinds
  /\ calls[k].mutated
  /\ calls[k].pc \in {"open", "write"}

\* a subscriber of the surface of call k that can take a message
Reachable(k) == \E w \in ClientsOf(State, calls[k].sid) : CanSend(State, w)

\* C29: a persistence write that stays pending does not hold back the
\* broadcast: an update whose write is pending, on a surface with a
\* subscriber that can take a message, has its message delivered to a
\* subscriber (or the subscribers go away), however slow the disk is
C29_SlowWriteDoesNotBlock ==
  \A k \in 1..MaxCalls :
    (WritePending(k) /\ Reachable(k)) ~> (Received(k) \/ ~Reachable(k))

\* close_surface on sid has returned and no call on sid is in flight
ClosedAndSettled(sid) ==
  /\ \E k \in DOMAIN calls :
       /\ calls[k].kind = "close" /\ calls[k].sid = sid
       /\ calls[k].pc = "done" /\ calls[k].result = "ok"
  /\ \A k \in DOMAIN calls : calls[k].sid = sid => calls[k].pc \in {"new", "done"}

\* C30: once close_surface on a surface has returned and every call on
\* that surface has completed, no persisted record of the surface exists,
\* whatever persistence write overlapped with the close
C30_ClosedSurfaceHasNoRecord ==
  \A sid \in SurfaceIds : ClosedAndSettled(sid) => sid \notin DOMAIN files

\* close_surface on sid has returned True
Closed(sid) ==
  \E k \in DOMAIN calls :
    /\ calls[k].kind = "close" /\ calls[k].sid = sid
    /\ calls[k].pc = "done" /\ calls[k].result = "ok"

\* C31: after close_surface on a surface has returned no handle is
\* registered for that surface, and every key of the subscriber registry
\* that holds a non-empty set is a live surface, also when a viewer is
\* registered while close_surface is suspended
C31_NoSubscriberOnRemovedSurface ==
  \A sid \in SurfaceIds :
    Closed(sid) =>
      /\ ClientsOf(State, sid) = {}
      /\ \A s \in DOMAIN wsClients : wsClients[s] # {} => s \in surfaces

\* the broadcast of call k is suspended in a send and a viewer has joined
\* or left the surface since the broadcast began
JoinedOrLeftUnder(k) ==
  /\ calls[k].pc = "send"
  /\ calls[k].sid \in DOMAIN wsClients
  /\ wsClients[calls[k].sid] # calls[k].itStart

\* C32: a viewer joining or leaving a surface while a broadcast to it is
\* suspended between two sends does not make the update fail, and every
\* subscriber registered for the whole broadcast that can take a message
\* has received it when the call ends
C32_BroadcastSurvivesJoinAndLeave ==
  [][\A k \in DOMAIN calls :
       UpdateEnds(k) /\ JoinedOrLeftUnder(k) =>
         /\ calls'[k].result = "ok"
         /\ \A w \in calls[k].itStart \cap ClientsOf(State, calls[k].sid) :
              CanSend(State, w) => CopiesFrom(k, w)' # {}]_vars

\* no persistence operation has failed
NoPersistFailure ==
  diskOk /\ \A k \in DOMAIN calls : ~calls[k].persistFailed

\* the record file of sid parses and holds the in-memory surface
RecordMatches(sid) ==
  /\ files[sid].valid
  /\ LET r == ParseSurfaceState(files[sid])
     IN  /\ r.surface_id = objs[sid].surface_id
         /\ r.name = objs[sid].name
         /\ r.size = objs[sid].size
         /\ r.components = objs[sid].components
         /\ TreeSet(r.data_model) = TreeSet(objs[sid].data_model)

\* C33: with no persistence failure, whenever no operation is in flight
\* the persisted records are exactly those of the live surfaces and each
\* holds the id, name, size, components and data model of its surface
C33_RecordsMirrorSurfaces ==
  (Quiescent /\ NoPersistFailure) =>
    /\ DOMAIN files = surfaces
    /\ \A sid \in surfaces : RecordMatches(sid)

\* the connection handler of w has returned
HandlerEnded(w) == ws[w].pc = "done"

\* C34: a handle whose connection handler has ended, by a disconnect, a
\* channel error or a failed send of the replay, is in no surface's
\* subscriber set
C34_EndedHandlerIsUnregistered ==
  \A w \in WsHandles :
    HandlerEnded(w) => \A s \in DOMAIN wsClients : w \notin wsClients[s]

\* a viewer that was registered and whose peer went away has had its
\* handler end, while another viewer is still registered
C34_Witness ==
  \E w \in WsHandles :
    /\ HandlerEnded(w) /\ ws[w].broken /\ ws[w].inbox # << >>
    /\ \E s \in DOMAIN wsClients : wsClients[s] # {}

\* the surfaces in whose subscriber set w is
SurfacesOf(w) == { s \in DOMAIN wsClients : w \in wsClients[s] }

\* C35: every handle is a member of at most one surface's subscriber set
C35_OneSurfacePerHandle ==
  \A w \in WsHandles : Cardinality(SurfacesOf(w)) <= 1

\* two handles are registered, each on a surface of its own
C35_Witness ==
  \E w1, w2 \in WsHandles :
    /\ w1 # w2
    /\ Cardinality(SurfacesOf(w1)) = 1 /\ Cardinality(SurfacesOf(w2)) = 1
    /\ SurfacesOf(w1) # SurfacesOf(w2)

\* a step of the join of w: its registration or a send of its replay
JoinStep(w) ==
  /\ ws[w].pc \in {"new", "r_comp", "r_dm", "r_leaf"}
  /\ ws'[w].pc # ws[w].pc
  /\ calls' = calls /\ restarts' = restarts

\* C36: a join (register_ws_client and send_initial_state) sends its
\* messages to the joining handle only: no other handle receives anything,
\* and no surface, no other subscriber set and no record changes
C36_ReplayOnlyToNewHandle ==
  [][\A w \in WsHandles :
       JoinStep(w) =>
         /\ \A v \in WsHandles \ {w} : ws'[v] = ws[v]
         /\ surfaces' = surfaces /\ objs' = objs /\ files' = files
         /\ \A s \in SurfaceIds :
              /\ ClientsOf(State, s)' \ {w} = ClientsOf(State, s) \ {w}
              /\ s # ws'[w].sid => ClientsOf(State, s)' = ClientsOf(State, s)
         /\ \/ ws'[w].inbox = ws[w].inbox
            \/ /\ Len(ws'[w].inbox) = Len(ws[w].inbox) + 1
               /\ SubSeq(ws'[w].inbox, 1, Len(ws[w].inbox)) = ws[w].inbox
               /\ ws'[w].inbox[Len(ws'[w].inbox)].from = 0]_vars

\* a handle has had messages of its replay while another handle of the
\* same surface, joined before, listens and holds its own replay only
C36_Witness ==
  \E w, v \in WsHandles :
    /\ w # v /\ ws[w].sid = ws[v].sid
    /\ ws[v].pc = "listen" /\ ws[w].pc \in {"r_dm", "r_leaf", "listen"}
    /\ Len(ws[w].inbox) >= 2
    /\ ws[v].inbox = ws[w].inbox

\* the handles call k has sent its message to: those that hold it and
\* those whose send raised
SentTo(k) ==
  { w \in WsHandles : CopiesFrom(k, w) # {} } \cup calls[k].sendFailed

====
